---------------------------- MODULE Spec2Model ----------------------------
(***************************************************************************)
(* A model of the IPC subsystem of i3 (src/src/ipc.c) and of the parts of  *)
(* src/src/main.c that drive it: the registry of connected clients, the    *)
(* accept and read callbacks of the libev reactor, the request handlers,   *)
(* the event broadcast and the shutdown path.                              *)
(*                                                                         *)
(* Strings are sequences of byte values, so that strcasecmp, the JSON      *)
(* tokens of a SUBSCRIBE payload and payload lengths are computed, not     *)
(* assumed.  File descriptors are numbers handed out lowest-free-first, as *)
(* the kernel does; the connection behind a descriptor is kept in fdtable, *)
(* so that a descriptor number that is closed and reused is told apart     *)
(* from the connection it used to name.                                    *)
(***************************************************************************)
EXTENDS Integers, Sequences, FiniteSets, TLC

(***************************************************************************)
(* Bounds of the model.                                                    *)
(***************************************************************************)
\* connections accepted over one run of the process
MaxConns == 3
\* subscription strings alive on the heap at one time, over all clients
MaxStrings == 2
\* complete requests written by peers and not yet read, over all connections
MaxPending == 1
\* connections accepted over one run when liveness is checked
MaxFairConns == 2

(***************************************************************************)
(* Byte strings.                                                           *)
(***************************************************************************)
\* "ws", "Ws" and "w": two spellings of one name, and a proper prefix of it
EventNames == { <<119, 115>>, <<87, 115>>, <<119>> }

\* A uint32_t message type of a message that is sent: bit 31, which marks an
\* event, and the other bits.  (A request's type is its plain number.)
ReplyType(code) == [ event |-> FALSE, code |-> code ]

EventType(code) == [ event |-> TRUE, code |-> code ]

\* what the host publishes besides the name: the type I3_IPC_EVENT_WORKSPACE
\* with the payload {}, or the type I3_IPC_EVENT_OUTPUT with an empty payload
EventKinds == { [ type |-> EventType(0), payload |-> << 123, 125 >> ],
                [ type |-> EventType(1), payload |-> <<>> ] }

\* a length that counts the terminating NUL
strlen_with_terminator(s) == Len(s) + 1

strlen(s) == Len(s)

tolower(c) == IF c \in 65..90 THEN c + 32 ELSE c

\* the byte at position i of a NUL-terminated string
CharAt(s, i) == IF i <= Len(s) THEN s[i] ELSE 0

RECURSIVE strcasecmp_from(_, _, _)
strcasecmp_from(a, b, i) ==
    LET ca == tolower(CharAt(a, i))
        cb == tolower(CharAt(b, i))
    IN  IF ca # cb THEN ca - cb
        ELSE IF ca = 0 THEN 0
        ELSE strcasecmp_from(a, b, i + 1)

RECURSIVE strcmp_from(_, _, _)
strcmp_from(a, b, i) ==
    LET ca == CharAt(a, i)
        cb == CharAt(b, i)
    IN  IF ca # cb THEN ca - cb
        ELSE IF ca = 0 THEN 0
        ELSE strcmp_from(a, b, i + 1)

\* a comparison that tells "Ws" from "ws"
strcasecmp_sensitive(a, b) == strcmp_from(a, b, 1)

strcasecmp(a, b) == strcasecmp_from(a, b, 1)

strcmp(a, b) == strcmp_from(a, b, 1)

(***************************************************************************)
(* Sequences.                                                              *)
(***************************************************************************)
RemoveAt(s, i) == [ j \in 1..(Len(s) - 1) |-> IF j < i THEN s[j] ELSE s[j + 1] ]

RECURSIVE Flatten(_)
Flatten(ss) == IF ss = <<>> THEN <<>> ELSE Head(ss) \o Flatten(Tail(ss))

RECURSIVE SumLen(_)
SumLen(ss) == IF ss = <<>> THEN 0 ELSE Len(Head(ss)) + SumLen(Tail(ss))

(***************************************************************************)
(* The state.                                                              *)
(***************************************************************************)
VARIABLES
    all_clients,   \* the TAILQ of ipc_client: records [fd, events], head first
    heap,          \* the subscription strings allocated and not freed:
                   \* <<c, i>> is the i-th string appended for connection c
    watchers,      \* the descriptors with a started ipc_receive_message watcher
    fdtable,       \* open client descriptors of the process -> their connection
    nconn,         \* connections accepted so far; connection ids are 1..nconn
    pending,       \* connection -> complete requests written and not yet read
    peer_closed,   \* connections whose peer has closed its end
    phase,         \* "startup" until main has set up IPC, then "running", or
                   \* "exited" once the process has left the loop
    listening,     \* an ipc_new_client watcher on a listening socket is started
    stream,        \* one connection at the level of bytes: the messages its peer
                   \* sends, their encoding, how much of it has arrived and how
                   \* much the receiver has consumed (used by FrameSpec only)
    host,          \* the rest of the process the IPC code reads and writes: the
                   \* directories, the configured and inherited socket paths and
                   \* current_socketpath (PathSpec), the client mode of main
                   \* (ClientSpec), the keyboard state (XkbSpec)
    op,            \* the operation that ran last and its inputs
    before,        \* the registry as that operation found it
    out            \* the ipc_send_message calls of that operation, in order

vars == << all_clients, heap, watchers, fdtable, nconn, pending, peer_closed,
           phase, listening, stream, host, op, before, out >>

\* no part of the host is looked at
NoHost == [ name |-> "none" ]

\* no connection is looked at byte by byte
NoStream == [ msgs |-> <<>>, bytes |-> <<>>, garbled |-> FALSE, arrived |-> 0,
              consumed |-> 0, delivered |-> 0, closed |-> FALSE ]

OpenFds == DOMAIN fdtable

ClientFds == { all_clients[i].fd : i \in 1..Len(all_clients) }

\* the connection a descriptor names now (0: the descriptor is not open)
ConnOf(fd) == IF fd \in OpenFds THEN fdtable[fd] ELSE 0

num_events(client) == Len(client.events)

TotalStrings == SumLen([ i \in 1..Len(all_clients) |-> all_clients[i].events ])

TotalPending ==
    LET RECURSIVE Sum(_)
        Sum(S) == IF S = {} THEN 0
                  ELSE LET c == CHOOSE x \in S : TRUE
                       IN  pending[c] + Sum(S \ {c})
    IN  Sum(DOMAIN pending)


(***************************************************************************)
(* Messages.  A call ipc_send_message(fd, size, type, payload) is recorded *)
(* as the record of its arguments; no caller in ipc.c reads its result.    *)
(***************************************************************************)
I3_IPC_MESSAGE_TYPE_COMMAND == 0
I3_IPC_MESSAGE_TYPE_GET_WORKSPACES == 1
I3_IPC_MESSAGE_TYPE_SUBSCRIBE == 2
I3_IPC_MESSAGE_TYPE_GET_OUTPUTS == 3
I3_IPC_MESSAGE_TYPE_GET_TREE == 4
I3_IPC_MESSAGE_TYPE_GET_MARKS == 5
I3_IPC_MESSAGE_TYPE_GET_BAR_CONFIG == 6
I3_IPC_MESSAGE_TYPE_GET_VERSION == 7

\* sizeof(handlers) / sizeof(handler_t)
NumHandlers == 8

ipc_send_message(fd, size, type, payload) ==
    [ fd |-> fd, size |-> size, type |-> type, payload |-> payload ]

\* {"success":true}
ReplySuccessTrue ==
    << 123, 34, 115, 117, 99, 99, 101, 115, 115, 34, 58, 116, 114, 117, 101, 125 >>

\* {"success":false}
ReplySuccessFalse ==
    << 123, 34, 115, 117, 99, 99, 101, 115, 115, 34, 58, 102, 97, 108, 115, 101, 125 >>

\* []
JsonEmptyArray == << 91, 93 >>

\* {}
JsonEmptyMap == << 123, 125 >>

(***************************************************************************)
(* ipc_send_event: one message to each client with a matching name.        *)
(***************************************************************************)
\* the inner for loop: is this client interested in this event?
interested(client, event) ==
    \E i \in 1..num_events(client) : strcasecmp(client.events[i], event) = 0

\* the sends of a publish that sends once per matching entry
RECURSIVE ipc_send_event_per_entry(_, _, _, _)
ipc_send_event_per_entry(clients, event, message_type, payload) ==
    IF clients = <<>> THEN <<>>
    ELSE LET current == Head(clients)
             hits == SelectSeq(current.events, LAMBDA e : strcasecmp(e, event) = 0)
         IN  [ i \in 1..Len(hits) |->
                 ipc_send_message(current.fd, strlen(payload), message_type, payload) ]
             \o ipc_send_event_per_entry(Tail(clients), event, message_type, payload)

\* the sends of a publish that walks the registry from its tail
RECURSIVE ipc_send_event_reversed(_, _, _, _)
ipc_send_event_reversed(clients, event, message_type, payload) ==
    IF clients = <<>> THEN <<>>
    ELSE LET current == clients[Len(clients)]
         IN  (IF interested(current, event)
              THEN << ipc_send_message(current.fd, strlen(payload), message_type, payload) >>
              ELSE <<>>)
             \o ipc_send_event_reversed(SubSeq(clients, 1, Len(clients) - 1),
                                        event, message_type, payload)

\* a publish that gives up at the first client whose peer is gone
RECURSIVE ipc_send_event_abort_on_failure(_, _, _, _)
ipc_send_event_abort_on_failure(clients, event, message_type, payload) ==
    IF clients = <<>> THEN <<>>
    ELSE LET current == Head(clients)
             rest == ipc_send_event_abort_on_failure(Tail(clients), event,
                                                     message_type, payload)
         IN  IF interested(current, event)
             THEN << ipc_send_message(current.fd, strlen(payload), message_type, payload) >>
                  \o (IF ConnOf(current.fd) \in peer_closed THEN <<>> ELSE rest)
             ELSE rest

\* a publish that unregisters the clients it has sent to
registry_after_send_event_drops(clients, event) ==
    SelectSeq(clients, LAMBDA current : ~interested(current, event))

\* the registry after ipc_send_event: the loop reads current->num_events,
\* current->events[i] and current->fd, and has no TAILQ_REMOVE and no write
registry_after_send_event(clients, event) == clients

\* the TAILQ_FOREACH over the registry `clients': the sends, in order
RECURSIVE ipc_send_event(_, _, _, _)
ipc_send_event(clients, event, message_type, payload) ==
    IF clients = <<>> THEN <<>>
    ELSE LET current == Head(clients)
         IN  (IF interested(current, event)
              THEN << ipc_send_message(current.fd, strlen(payload), message_type, payload) >>
              ELSE <<>>)
             \o ipc_send_event(Tail(clients), event, message_type, payload)

(***************************************************************************)
(* ipc_shutdown: the while loop over the registry.  st is the record       *)
(* [clients, fds, hp, ws]: registry, open descriptors, heap, watchers.     *)
(***************************************************************************)
\* a shutdown that leaves the last client registered and open
ipc_shutdown_keeps_last(st) ==
    IF Len(st.clients) <= 1 THEN st
    ELSE [ st EXCEPT !.clients = << st.clients[Len(st.clients)] >>,
                     !.fds = { st.clients[Len(st.clients)].fd } ]

RECURSIVE ipc_shutdown(_)
ipc_shutdown(st) ==
    IF st.clients = <<>> THEN st
    ELSE LET current == Head(st.clients)
         IN  \* shutdown(current->fd), close(current->fd), TAILQ_REMOVE, free(current)
             ipc_shutdown([ st EXCEPT !.clients = Tail(st.clients),
                                      !.fds = st.fds \ { current.fd } ])

(***************************************************************************)
(* The JSON text of a SUBSCRIBE payload and its parser.  yajl_parse is     *)
(* given only a yajl_string callback (add_subscription); the parser below  *)
(* lexes the bytes and calls it for each string token, in order, until     *)
(* the text ends or a byte is no JSON.  Its result is the list of strings  *)
(* handed to the callback and the parse status.                            *)
(***************************************************************************)
Quote(name) == << 34 >> \o name \o << 34 >>

RECURSIVE JoinQuoted(_)
JoinQuoted(names) ==
    IF names = <<>> THEN <<>>
    ELSE IF Len(names) = 1 THEN Quote(names[1])
    ELSE Quote(names[1]) \o << 44 >> \o JoinQuoted(Tail(names))

\* ["n1","n2",...]
JsonArray(names) == << 91 >> \o JoinQuoted(names) \o << 93 >>

\* ["n1","n2",...!   (the array is cut short by a byte that is no JSON)
JsonBroken(names) == << 91 >> \o JoinQuoted(names) \o << 33 >>

\* the position of the first byte 34 at or after i, or 0
RECURSIVE ClosingQuote(_, _)
ClosingQuote(text, i) ==
    IF i > Len(text) THEN 0
    ELSE IF text[i] = 34 THEN i
    ELSE ClosingQuote(text, i + 1)

\* st: "value" (a value must follow), "first" (a value or ] may follow),
\*     "after" (a , or ] must follow), "done" (the top-level value is complete)
RECURSIVE yajl_do_parse(_, _, _, _, _)
yajl_do_parse(text, i, depth, st, strings) ==
    IF i > Len(text) THEN [ strings |-> strings, status |-> "ok" ]
    ELSE LET b == text[i]
             error == [ strings |-> strings, status |-> "error" ]
             closed == IF depth = 1 THEN "done" ELSE "after"
         IN  IF b \in { 32, 9, 10, 13 } THEN yajl_do_parse(text, i + 1, depth, st, strings)
             ELSE IF st = "done" THEN error
             ELSE IF b = 34 /\ st \in { "value", "first" } THEN
                 LET j == ClosingQuote(text, i + 1)
                 IN  IF j = 0 THEN [ strings |-> strings, status |-> "ok" ]
                     ELSE yajl_do_parse(text, j + 1, depth,
                                        IF depth = 0 THEN "done" ELSE "after",
                                        Append(strings, SubSeq(text, i + 1, j - 1)))
             ELSE IF b = 91 /\ st \in { "value", "first" } THEN
                 yajl_do_parse(text, i + 1, depth + 1, "first", strings)
             ELSE IF b = 93 /\ st \in { "first", "after" } /\ depth > 0 THEN
                 yajl_do_parse(text, i + 1, depth - 1, closed, strings)
             ELSE IF b = 44 /\ st = "after" THEN
                 yajl_do_parse(text, i + 1, depth, "value", strings)
             ELSE error

yajl_parse(text) == yajl_do_parse(text, 1, 0, "value", <<>>)

\* a callback that stores the name lower-cased
add_subscription_lowercase(client, s) ==
    [ client EXCEPT !.events = Append(@, [ i \in 1..Len(s) |-> tolower(s[i]) ]) ]

\* a callback that skips a name the client already has
add_subscription_dedup(client, s) ==
    IF \E i \in 1..num_events(client) : client.events[i] = s THEN client
    ELSE [ client EXCEPT !.events = Append(@, s) ]

\* a callback that puts the new name in front of the list
add_subscription_front(client, s) ==
    [ client EXCEPT !.events = << s >> \o @ ]

\* the yajl_string callback: num_events++, events[num_events - 1] = copy of s
add_subscription(client, s) ==
    [ client EXCEPT !.events = Append(@, s) ]

\* the callback applied to each string of `strings', in order
RECURSIVE add_subscriptions(_, _)
add_subscriptions(client, strings) ==
    IF strings = <<>> THEN client
    ELSE add_subscriptions(add_subscription(client, Head(strings)), Tail(strings))

\* a lookup that takes the head of the registry without comparing descriptors
FindClient_head(clients, fd) == IF clients # <<>> THEN 1 ELSE 0

\* the index of the first registry entry with descriptor fd, or 0
FindClient(clients, fd) ==
    IF \E i \in 1..Len(clients) : clients[i].fd = fd
    THEN CHOOSE i \in 1..Len(clients) :
            /\ clients[i].fd = fd
            /\ \A j \in 1..(i - 1) : clients[j].fd # fd
    ELSE 0

(***************************************************************************)
(* The handlers.  Each yields [clients, hp, msgs]: the registry and the    *)
(* heap it leaves and the messages it sends, in order.  c is the           *)
(* connection behind fd (it names the strings the handler allocates).      *)
(***************************************************************************)
\* what a handler leaves behind: the registry, the heap, the messages it sent
\* and the calls it made into the host, in order
Unchanged(clients, hp, msgs) ==
    [ clients |-> clients, hp |-> hp, msgs |-> msgs, calls |-> <<>> ]

\* the text a function taking a const char* sees in a buffer: the bytes
\* before the first NUL
RECURSIVE c_string(_)
c_string(buf) ==
    IF buf = <<>> \/ Head(buf) = 0 THEN <<>> ELSE << Head(buf) >> \o c_string(Tail(buf))

\* scalloc(message_size + 1) and strncpy(command, message, message_size): the
\* copy stops at the first NUL of the message and the rest stays zero
strncpy(message, message_size) ==
    LET text == c_string(SubSeq(message, 1, message_size))
    IN  text \o [ i \in 1..(message_size + 1 - Len(text)) |-> 0 ]

\* a handler that renders the tree after every command
handle_command_always_renders(clients, hp, fd, message, exec) ==
    [ Unchanged(clients, hp,
        Flatten([ k \in 1..Len(exec.events) |->
              ipc_send_event(clients, exec.events[k].event, exec.events[k].type,
                             exec.events[k].payload) ])
        \o Flatten([ k \in 1..Len(exec.render_events) |->
              ipc_send_event(clients, exec.render_events[k].event,
                             exec.render_events[k].type,
                             exec.render_events[k].payload) ])
        \o << ipc_send_message(fd, Len(exec.json), ReplyType(I3_IPC_MESSAGE_TYPE_COMMAND), exec.json) >>)
      EXCEPT !.calls = << [ call |-> "parse_command",
                            command |-> c_string(strncpy(message, Len(message))) ],
                          [ call |-> "tree_render" ] >> ]

\* a handler that sends the command's reply before the command is executed
handle_command_reply_first(clients, hp, fd, message, exec) ==
    Unchanged(clients, hp,
        << ipc_send_message(fd, Len(exec.json), ReplyType(I3_IPC_MESSAGE_TYPE_COMMAND), exec.json) >>
        \o Flatten([ k \in 1..Len(exec.events) |->
              ipc_send_event(clients, exec.events[k].event, exec.events[k].type,
                             exec.events[k].payload) ])
        \o (IF exec.needs_tree_render
            THEN Flatten([ k \in 1..Len(exec.render_events) |->
                    ipc_send_event(clients, exec.render_events[k].event,
                                   exec.render_events[k].type,
                                   exec.render_events[k].payload) ])
            ELSE <<>>))

\* IPC_HANDLER(command): parse_command, then tree_render if asked for, then
\* the reply.  exec is what the executor does with the command: the events
\* it publishes while parsing and while rendering, and its result.
handle_command(clients, hp, fd, message, exec) ==
    [ Unchanged(clients, hp,
        Flatten([ k \in 1..Len(exec.events) |->
              ipc_send_event(clients, exec.events[k].event, exec.events[k].type,
                             exec.events[k].payload) ])
        \o (IF exec.needs_tree_render
            THEN Flatten([ k \in 1..Len(exec.render_events) |->
                    ipc_send_event(clients, exec.render_events[k].event,
                                   exec.render_events[k].type,
                                   exec.render_events[k].payload) ])
            ELSE <<>>)
        \o << ipc_send_message(fd, Len(exec.json), ReplyType(I3_IPC_MESSAGE_TYPE_COMMAND), exec.json) >>)
      EXCEPT !.calls = << [ call |-> "parse_command",
                            command |-> c_string(strncpy(message, Len(message))) ] >>
                       \o (IF exec.needs_tree_render THEN << [ call |-> "tree_render" ] >>
                           ELSE <<>>) ]

handle_get_workspaces(clients, hp, fd) ==
    Unchanged(clients, hp,
        << ipc_send_message(fd, Len(JsonEmptyArray), ReplyType(I3_IPC_MESSAGE_TYPE_GET_WORKSPACES),
                            JsonEmptyArray) >>)

handle_get_outputs(clients, hp, fd) ==
    Unchanged(clients, hp,
        << ipc_send_message(fd, Len(JsonEmptyArray), ReplyType(I3_IPC_MESSAGE_TYPE_GET_OUTPUTS),
                            JsonEmptyArray) >>)

handle_get_marks(clients, hp, fd) ==
    Unchanged(clients, hp,
        << ipc_send_message(fd, Len(JsonEmptyArray), ReplyType(I3_IPC_MESSAGE_TYPE_GET_MARKS),
                            JsonEmptyArray) >>)

\* a GET_VERSION handler that answers nothing
handle_get_version_silent(clients, hp, fd) == Unchanged(clients, hp, <<>>)

handle_get_version(clients, hp, fd) ==
    Unchanged(clients, hp,
        << ipc_send_message(fd, Len(JsonEmptyMap), ReplyType(I3_IPC_MESSAGE_TYPE_GET_VERSION),
                            JsonEmptyMap) >>)

\* yajl_gen_string: the string between quotes, with a backslash before each
\* quote and backslash
RECURSIVE yajl_escape(_)
yajl_escape(str) ==
    IF str = <<>> THEN <<>>
    ELSE (IF Head(str) \in { 34, 92 } THEN << 92, Head(str) >> ELSE << Head(str) >>)
         \o yajl_escape(Tail(str))

ystr(str) == << 34 >> \o yajl_escape(str) \o << 34 >>

RECURSIVE ystr_list(_)
ystr_list(strs) ==
    IF strs = <<>> THEN <<>>
    ELSE IF Len(strs) = 1 THEN ystr(strs[1])
    ELSE ystr(strs[1]) \o << 44 >> \o ystr_list(Tail(strs))

\* "id":
KeyId == << 34, 105, 100, 34, 58 >>

\* null
JsonNull == << 110, 117, 108, 108 >>

\* the members after "id" of a bar configuration that has no outputs and no
\* optional strings, is docked at the top with hidden_state S_HIDE and the
\* default modifier, shows its buttons and indicator and is not verbose:
\* ,"mode":"dock","hidden_state":"hide","modifier":"Mod4","position":"top","workspace_buttons":true,"binding_mode_indicator":true,"verbose":false,"colors":{}
BarConfigMembers ==
    << 44, 34, 109, 111, 100, 101, 34, 58, 34, 100, 111, 99, 107, 34, 44, 34, 104,
       105, 100, 100, 101, 110, 95, 115, 116, 97, 116, 101, 34, 58, 34, 104, 105,
       100, 101, 34, 44, 34, 109, 111, 100, 105, 102, 105, 101, 114, 34, 58, 34, 77,
       111, 100, 52, 34, 44, 34, 112, 111, 115, 105, 116, 105, 111, 110, 34, 58, 34,
       116, 111, 112, 34, 44, 34, 119, 111, 114, 107, 115, 112, 97, 99, 101, 95, 98,
       117, 116, 116, 111, 110, 115, 34, 58, 116, 114, 117, 101, 44, 34, 98, 105,
       110, 100, 105, 110, 103, 95, 109, 111, 100, 101, 95, 105, 110, 100, 105, 99,
       97, 116, 111, 114, 34, 58, 116, 114, 117, 101, 44, 34, 118, 101, 114, 98, 111,
       115, 101, 34, 58, 102, 97, 108, 115, 101, 44, 34, 99, 111, 108, 111, 114, 115,
       34, 58, 123, 125 >>

\* the strcmp lookup of the TAILQ_FOREACH over barconfigs: the position of the
\* first configuration whose id is bar_id, or 0
FindBarconfig(barconfigs, bar_id) ==
    IF \E i \in 1..Len(barconfigs) : strcmp(barconfigs[i].id, bar_id) = 0
    THEN CHOOSE i \in 1..Len(barconfigs) :
            /\ strcmp(barconfigs[i].id, bar_id) = 0
            /\ \A j \in 1..(i - 1) : strcmp(barconfigs[j].id, bar_id) # 0
    ELSE 0

\* IPC_HANDLER(get_bar_config): the array of all ids for an empty message,
\* else the object of the configuration whose id is the message, copied with
\* strncpy into a zeroed buffer, or the object with a null id
handle_get_bar_config(clients, hp, fd, message, barconfigs) ==
    LET bar_id  == c_string(strncpy(message, Len(message)))
        config  == FindBarconfig(barconfigs, bar_id)
        payload == IF Len(message) = 0
                      THEN << 91 >> \o ystr_list([ i \in 1..Len(barconfigs) |-> barconfigs[i].id ])
                           \o << 93 >>
                   ELSE IF config = 0
                      THEN << 123 >> \o KeyId \o JsonNull \o << 125 >>
                   ELSE << 123 >> \o KeyId \o ystr(barconfigs[config].id)
                        \o BarConfigMembers \o << 125 >>
    IN  Unchanged(clients, hp,
            << ipc_send_message(fd, Len(payload), ReplyType(I3_IPC_MESSAGE_TYPE_GET_BAR_CONFIG),
                                payload) >>)

(***************************************************************************)
(* GET_TREE.  dump_node writes one map per container into a yajl generator;  *)
(* the generator takes the atoms of a map as key and value in turn and      *)
(* refuses, without writing, a call in key position that is no string;      *)
(* dump_node reads no status.  Of the fields of a container the model keeps *)
(* scratchpad_state, focused, all fields from layout to current_border_width,*)
(* the child containers and floating.                                       *)
(***************************************************************************)
\* scratchpad_state
str_scratchpad_state == << 115, 99, 114, 97, 116, 99, 104, 112, 97, 100, 95, 115, 116, 97, 116, 101 >>

\* none
str_none == << 110, 111, 110, 101 >>

\* focused
str_focused == << 102, 111, 99, 117, 115, 101, 100 >>

\* false
str_false == << 102, 97, 108, 115, 101 >>

\* layout
str_layout == << 108, 97, 121, 111, 117, 116 >>

\* splitv
str_splitv == << 115, 112, 108, 105, 116, 118 >>

\* splith
str_splith == << 115, 112, 108, 105, 116, 104 >>

\* stacked
str_stacked == << 115, 116, 97, 99, 107, 101, 100 >>

\* tabbed
str_tabbed == << 116, 97, 98, 98, 101, 100 >>

\* dockarea
str_dockarea == << 100, 111, 99, 107, 97, 114, 101, 97 >>

\* output
str_output == << 111, 117, 116, 112, 117, 116 >>

\* workspace_layout
str_workspace_layout == << 119, 111, 114, 107, 115, 112, 97, 99, 101, 95, 108, 97, 121, 111, 117, 116 >>

\* default
str_default == << 100, 101, 102, 97, 117, 108, 116 >>

\* last_split_layout
str_last_split_layout == << 108, 97, 115, 116, 95, 115, 112, 108, 105, 116, 95, 108, 97, 121, 111, 117, 116 >>

\* border
str_border == << 98, 111, 114, 100, 101, 114 >>

\* normal
str_normal == << 110, 111, 114, 109, 97, 108 >>

\* current_border_width
str_current_border_width == << 99, 117, 114, 114, 101, 110, 116, 95, 98, 111, 114, 100, 101, 114, 95, 119, 105, 100, 116, 104 >>

\* 2
int_2 == << 50 >>

\* nodes
str_nodes == << 110, 111, 100, 101, 115 >>

\* floating
str_floating == << 102, 108, 111, 97, 116, 105, 110, 103 >>

\* auto_off
str_auto_off == << 97, 117, 116, 111, 95, 111, 102, 102 >>

\* fresh
str_fresh == << 102, 114, 101, 115, 104 >>

\* changed
str_changed == << 99, 104, 97, 110, 103, 101, 100 >>

\* pixel
str_pixel == << 112, 105, 120, 101, 108 >>

\* auto_on
str_auto_on == << 97, 117, 116, 111, 95, 111, 110 >>

\* user_off
str_user_off == << 117, 115, 101, 114, 95, 111, 102, 102 >>

\* user_on
str_user_on == << 117, 115, 101, 114, 95, 111, 110 >>

\* the calls dump_node makes on the generator
Ystr(str) == [ call |-> "string", text |-> ystr(str) ]

Yatom(text) == [ call |-> "atom", text |-> text ]

Y(call) == [ call |-> call, text |-> <<>> ]

\* the top of the generator's state stack
Top(g) == g.state[Len(g.state)]

\* the separator the generator writes before an atom
INSERT_SEP(g) ==
    IF Top(g) \in { "map_key", "in_array" } THEN << 44 >>
    ELSE IF Top(g) = "map_val" THEN << 58 >>
    ELSE <<>>

\* the state after an atom
APPENDED_ATOM(state) ==
    CASE state = "start" -> "complete"
      [] state \in { "map_start", "map_key" } -> "map_val"
      [] state = "array_start" -> "in_array"
      [] state = "map_val" -> "map_key"
      [] OTHER -> state

\* one call on the generator: it refuses, without writing, everything once
\* the document is complete and everything but a string where a key is due;
\* assert(false) ends the process unless NDEBUG is defined
ycall(g, c, ndebug) ==
    IF g.aborted THEN g
    ELSE IF c.call = "assert_false" THEN [ g EXCEPT !.aborted = ~ndebug ]
    ELSE IF Top(g) = "complete" THEN g
    ELSE IF c.call = "string"
       THEN [ g EXCEPT !.buf = @ \o INSERT_SEP(g) \o c.text,
                       !.state[Len(g.state)] = APPENDED_ATOM(@) ]
    ELSE IF c.call \in { "map_close", "array_close" }
       THEN [ g EXCEPT !.buf = @ \o (IF c.call = "map_close" THEN << 125 >> ELSE << 93 >>),
                       !.state = [ SubSeq(g.state, 1, Len(g.state) - 1)
                                     EXCEPT ![Len(g.state) - 1] = APPENDED_ATOM(@) ] ]
    ELSE IF Top(g) \in { "map_key", "map_start" } THEN g
    ELSE IF c.call = "atom"
       THEN [ g EXCEPT !.buf = @ \o INSERT_SEP(g) \o c.text,
                       !.state[Len(g.state)] = APPENDED_ATOM(@) ]
    ELSE [ g EXCEPT !.buf = @ \o INSERT_SEP(g)
                             \o (IF c.call = "map_open" THEN << 123 >> ELSE << 91 >>),
                    !.state = Append(@, IF c.call = "map_open" THEN "map_start"
                                        ELSE "array_start") ]

\* the calls in order
RECURSIVE yajl_gen(_, _, _)
yajl_gen(g, calls, ndebug) ==
    IF calls = <<>> THEN g ELSE yajl_gen(ycall(g, Head(calls), ndebug), Tail(calls), ndebug)

\* ygenalloc
ygenalloc == [ buf |-> <<>>, state |-> << "start" >>, aborted |-> FALSE ]

\* switch (con->layout)
layout_calls(layout) ==
    CASE layout = "L_DEFAULT"  -> << Y("assert_false") >>
      [] layout = "L_SPLITV"   -> << Ystr(str_splitv) >>
      [] layout = "L_SPLITH"   -> << Ystr(str_splith) >>
      [] layout = "L_STACKED"  -> << Ystr(str_stacked) >>
      [] layout = "L_TABBED"   -> << Ystr(str_tabbed) >>
      [] layout = "L_DOCKAREA" -> << Ystr(str_dockarea) >>
      [] layout = "L_OUTPUT"   -> << Ystr(str_output) >>

\* switch (con->workspace_layout)
workspace_layout_calls(workspace_layout) ==
    CASE workspace_layout = "L_DEFAULT" -> << Ystr(str_default) >>
      [] workspace_layout = "L_STACKED" -> << Ystr(str_stacked) >>
      [] workspace_layout = "L_TABBED"  -> << Ystr(str_tabbed) >>
      [] OTHER -> << Y("assert_false") >>

\* switch (con->scratchpad_state): no default case
scratchpad_state_calls(scratchpad_state) ==
    CASE scratchpad_state = "SCRATCHPAD_NONE"    -> << Ystr(str_none) >>
      [] scratchpad_state = "SCRATCHPAD_FRESH"   -> << Ystr(str_fresh) >>
      [] scratchpad_state = "SCRATCHPAD_CHANGED" -> << Ystr(str_changed) >>
      [] OTHER -> <<>>

\* switch (con->border_style): no default case
border_style_calls(border_style) ==
    CASE border_style = "BS_NORMAL" -> << Ystr(str_normal) >>
      [] border_style = "BS_NONE"   -> << Ystr(str_none) >>
      [] border_style = "BS_PIXEL"  -> << Ystr(str_pixel) >>
      [] OTHER -> <<>>

\* switch (con->floating): no default case
floating_calls(floating) ==
    CASE floating = "FLOATING_AUTO_OFF" -> << Ystr(str_auto_off) >>
      [] floating = "FLOATING_AUTO_ON"  -> << Ystr(str_auto_on) >>
      [] floating = "FLOATING_USER_OFF" -> << Ystr(str_user_off) >>
      [] floating = "FLOATING_USER_ON"  -> << Ystr(str_user_on) >>
      [] OTHER -> <<>>

\* dump_node(gen, con, inplace_restart) with inplace_restart false: the calls
\* for the map of the container, those of its children inside
RECURSIVE dump_node(_)
dump_node(con) ==
    << Y("map_open"),
       Ystr(str_scratchpad_state) >>
    \o scratchpad_state_calls(con.scratchpad_state)
    \o << Ystr(str_focused), Yatom(str_false),
          Ystr(str_layout) >>
    \o layout_calls(con.layout)
    \o << Ystr(str_workspace_layout) >>
    \o workspace_layout_calls(con.workspace_layout)
    \o << Ystr(str_last_split_layout),
          Ystr(IF con.layout = "L_SPLITV" THEN str_splitv ELSE str_splith),
          Ystr(str_border) >>
    \o border_style_calls(con.border_style)
    \o << Ystr(str_current_border_width), Yatom(int_2),
          Ystr(str_nodes), Y("array_open") >>
    \o Flatten([ n \in 1..Len(con.nodes) |-> dump_node(con.nodes[n]) ])
    \o << Y("array_close"),
          Ystr(str_floating) >>
    \o floating_calls(con.floating)
    \o << Y("map_close") >>

\* a container with this layout and these children, not in the scratchpad,
\* with a normal border, not floating, with the default workspace layout
Con(layout, nodes) ==
    [ layout |-> layout, workspace_layout |-> "L_DEFAULT",
      scratchpad_state |-> "SCRATCHPAD_NONE", border_style |-> "BS_NORMAL",
      floating |-> "FLOATING_AUTO_OFF", nodes |-> nodes ]

\* the values of con->layout
Layouts == { "L_DEFAULT", "L_SPLITV", "L_SPLITH", "L_STACKED", "L_TABBED", "L_DOCKAREA",
             "L_OUTPUT" }

\* the values the other enumerated fields are set to in the code
ScratchpadStates == { "SCRATCHPAD_NONE", "SCRATCHPAD_FRESH", "SCRATCHPAD_CHANGED" }

BorderStyles == { "BS_NORMAL", "BS_NONE", "BS_PIXEL" }

FloatingStates == { "FLOATING_AUTO_OFF", "FLOATING_AUTO_ON", "FLOATING_USER_OFF",
                    "FLOATING_USER_ON" }

\* single containers with every value of the enumerated fields;
\* workspace_layout has the type of layout
EnumCons ==
    { [ Con("L_SPLITH", <<>>) EXCEPT !.scratchpad_state = s, !.border_style = b,
                                    !.floating = f, !.workspace_layout = w ] :
        s \in ScratchpadStates, b \in BorderStyles, f \in FloatingStates, w \in Layouts }

Trees ==
    { Con(l, <<>>) : l \in Layouts }
    \cup { Con(l, << Con(m, <<>>) >>) : l \in Layouts, m \in Layouts }
    \cup EnumCons

\* the generator after dump_node(gen, croot, false), for each tree and build
dump_tree ==
    [ ndebug \in BOOLEAN |-> [ croot \in Trees |-> yajl_gen(ygenalloc, dump_node(croot), ndebug) ] ]

\* IPC_HANDLER(tree): the root is dumped and whatever the generator holds is
\* sent, unless an assertion has ended the process before
handle_tree(clients, hp, fd, croot, ndebug) ==
    LET gen == dump_tree[ndebug][croot]
    IN  IF gen.aborted
           THEN [ Unchanged(clients, hp, <<>>) EXCEPT !.calls = << [ call |-> "abort" ] >> ]
        ELSE Unchanged(clients, hp,
                << ipc_send_message(fd, Len(gen.buf), ReplyType(I3_IPC_MESSAGE_TYPE_GET_TREE),
                                    gen.buf) >>)

\* a SUBSCRIBE handler that takes back the names of a payload that fails
handle_subscribe_rollback(clients, hp, fd, c, message) ==
    LET idx == FindClient(clients, fd)
    IN  IF idx = 0 THEN Unchanged(clients, hp, <<>>)
        ELSE LET client == clients[idx]
                 parsed == yajl_parse(message)
                 after == IF parsed.status # "ok" THEN client
                          ELSE add_subscriptions(client, parsed.strings)
                 reply == IF parsed.status # "ok" THEN ReplySuccessFalse
                          ELSE ReplySuccessTrue
             IN  [ clients |-> [ clients EXCEPT ![idx] = after ],
                   hp |-> hp \cup { << c, i >> :
                                     i \in (num_events(client) + 1)..num_events(after) },
                   msgs |-> << ipc_send_message(fd, strlen(reply),
                                    ReplyType(I3_IPC_MESSAGE_TYPE_SUBSCRIBE), reply) >>,
                   calls |-> <<>> ]

\* IPC_HANDLER(subscribe)
handle_subscribe(clients, hp, fd, c, message) ==
    LET idx == FindClient(clients, fd)
    IN  IF idx = 0 THEN Unchanged(clients, hp, <<>>)
        ELSE LET client == clients[idx]
                 parsed == yajl_parse(message)
                 after == add_subscriptions(client, parsed.strings)
                 reply == IF parsed.status # "ok" THEN ReplySuccessFalse
                          ELSE ReplySuccessTrue
             IN  [ clients |-> [ clients EXCEPT ![idx] = after ],
                   hp |-> hp \cup { << c, i >> :
                                     i \in (num_events(client) + 1)..num_events(after) },
                   msgs |-> << ipc_send_message(fd, strlen(reply),
                                    ReplyType(I3_IPC_MESSAGE_TYPE_SUBSCRIBE), reply) >>,
                   calls |-> <<>> ]

(***************************************************************************)
(* The handler table and the inputs of a request.                          *)
(***************************************************************************)
\* a dispatcher that reduces the type modulo the table size instead of
\* ignoring a type outside the table
handlers_wrap(clients, hp, fd, c, message_type, message, exec) ==
    LET t == message_type % NumHandlers
    IN  CASE t = 0 -> handle_command(clients, hp, fd, message, exec)
          [] t = 1 -> handle_get_workspaces(clients, hp, fd)
          [] t = 2 -> handle_subscribe(clients, hp, fd, c, message)
          [] t = 3 -> handle_get_outputs(clients, hp, fd)
          [] t = 4 -> handle_tree(clients, hp, fd, exec.croot, exec.ndebug)
          [] t = 5 -> handle_get_marks(clients, hp, fd)
          [] t = 6 -> handle_get_bar_config(clients, hp, fd, message, exec.barconfigs)
          [] t = 7 -> handle_get_version(clients, hp, fd)

\* a table with the entries of GET_OUTPUTS and GET_TREE exchanged
handlers_swapped(clients, hp, fd, c, message_type, message, exec) ==
    IF message_type >= NumHandlers THEN Unchanged(clients, hp, <<>>)
    ELSE CASE message_type = 0 -> handle_command(clients, hp, fd, message, exec)
           [] message_type = 1 -> handle_get_workspaces(clients, hp, fd)
           [] message_type = 2 -> handle_subscribe(clients, hp, fd, c, message)
           [] message_type = 3 -> handle_tree(clients, hp, fd, exec.croot, exec.ndebug)
           [] message_type = 4 -> handle_get_outputs(clients, hp, fd)
           [] message_type = 5 -> handle_get_marks(clients, hp, fd)
           [] message_type = 6 -> handle_get_bar_config(clients, hp, fd, message, exec.barconfigs)
           [] message_type = 7 -> handle_get_version(clients, hp, fd)

\* handlers[message_type](fd, message, 0, message_length, message_type), or
\* nothing when message_type is outside the table
handlers(clients, hp, fd, c, message_type, message, exec) ==
    IF message_type >= NumHandlers THEN Unchanged(clients, hp, <<>>)
    ELSE CASE message_type = 0 -> handle_command(clients, hp, fd, message, exec)
           [] message_type = 1 -> handle_get_workspaces(clients, hp, fd)
           [] message_type = 2 -> handle_subscribe(clients, hp, fd, c, message)
           [] message_type = 3 -> handle_get_outputs(clients, hp, fd)
           [] message_type = 4 -> handle_tree(clients, hp, fd, exec.croot, exec.ndebug)
           [] message_type = 5 -> handle_get_marks(clients, hp, fd)
           [] message_type = 6 -> handle_get_bar_config(clients, hp, fd, message, exec.barconfigs)
           [] message_type = 7 -> handle_get_version(clients, hp, fd)

\* an assertion of a handler has failed: the process is gone
Aborted(calls) == \E k \in 1..Len(calls) : calls[k].call = "abort"

\* what the executor does with a command that publishes nothing
NoExec == [ events |-> <<>>, needs_tree_render |-> FALSE, render_events |-> <<>>,
            json |-> JsonEmptyArray, barconfigs |-> <<>>, croot |-> Con("L_SPLITH", <<>>),
            ndebug |-> FALSE ]

Published(event) == [ event |-> event, type |-> EventType(0), payload |-> JsonEmptyMap ]

\* the behaviours of parse_command and tree_render: at most one event is
\* published while the command is parsed and at most one while rendering
Execs ==
    { [ NoExec EXCEPT !.events = ev, !.needs_tree_render = r, !.render_events = rev ] :
        ev \in { <<>>, << Published(<< 119, 115 >>) >> },
        r \in BOOLEAN,
        rev \in { <<>>, << Published(<< 119 >>) >> } }

\* the lists of names peers subscribe to in one request: none, each single
\* name, one name in two spellings, and two different names
SubscribeLists ==
    { <<>> } \cup { << n >> : n \in EventNames }
    \cup { << << 119, 115 >>, << 87, 115 >> >>, << << 119 >>, << 119, 115 >> >> }

\* the SUBSCRIBE payloads a peer sends when `room' more strings fit the heap
SubscribePayloads(room) ==
    LET lists == { ns \in SubscribeLists : Len(ns) <= room }
    IN  { JsonArray(ns) : ns \in lists } \cup { JsonBroken(ns) : ns \in lists }

\* the requests a peer may have written: type, payload and, for a COMMAND,
\* what executing it does
Requests(room) ==
    { [ type |-> t, payload |-> <<>>, exec |-> NoExec ] : t \in { 1, 3, 4, 5, 6, 7, 8 } }
    \cup { [ type |-> 0, payload |-> << 119 >>, exec |-> e ] :
             e \in { x \in Execs : x.needs_tree_render \/ x.render_events = <<>> } }
    \cup { [ type |-> 2, payload |-> p, exec |-> NoExec ] : p \in SubscribePayloads(room) }

\* the calls of one operation as the kernel sees them: the connection behind
\* the descriptor, and whether the write succeeds (it fails with EPIPE when
\* the peer has closed; SIGPIPE is ignored)
Deliver(msgs) ==
    [ k \in 1..Len(msgs) |->
        [ fd |-> msgs[k].fd, conn |-> ConnOf(msgs[k].fd), size |-> msgs[k].size,
          type |-> msgs[k].type, payload |-> msgs[k].payload,
          ok |-> ConnOf(msgs[k].fd) \notin peer_closed ] ]

\* the lowest descriptor number that is not open
LowestFreeFd ==
    CHOOSE n \in 1..(Cardinality(OpenFds) + 1) :
        /\ n \notin OpenFds
        /\ \A m \in 1..(n - 1) : m \in OpenFds

\* f without x in its domain
Without(f, x) == [ y \in DOMAIN f \ { x } |-> f[y] ]

(***************************************************************************)
(* Init: the process has started, main has not yet set up IPC; the         *)
(* registry is TAILQ_HEAD_INITIALIZER(all_clients).                        *)
(***************************************************************************)
Init ==
    /\ all_clients = <<>>
    /\ heap = {}
    /\ watchers = {}
    /\ fdtable = [ fd \in {} |-> 0 ]
    /\ nconn = 0
    /\ pending = [ c \in {} |-> 0 ]
    /\ peer_closed = {}
    /\ phase = "startup"
    /\ listening = FALSE
    /\ stream = NoStream
    /\ host = NoHost
    /\ op = [ name |-> "init" ]
    /\ before = <<>>
    /\ out = <<>>

(***************************************************************************)
(* main: the IPC part of the startup.                                      *)
(***************************************************************************)
\* how the system calls of ipc_create_socket end: all succeed, or the named
\* one fails
CreateOutcomes == { "ok", "socket", "bind", "set_nonblock", "listen" }

\* what sd_listen_fds(0) returns: an error, no socket, one socket
ListenFds == { -1, 0, 1, 2 }

\* the first descriptor of socket activation
SD_LISTEN_FDS_START == 3

\* a main that looks for passed sockets only when it has made its own
listener_watchers_after_create(ipc_socket, listen_fds) ==
    IF ipc_socket = -1 THEN {}
    ELSE { [ passed |-> FALSE, fd |-> ipc_socket, cb |-> "ipc_new_client" ] }
         \cup { [ passed |-> TRUE, fd |-> fd, cb |-> "ipc_new_client" ] :
                    fd \in SD_LISTEN_FDS_START..(SD_LISTEN_FDS_START + listen_fds - 1) }

\* the ev_io watchers main starts on listening sockets: one on the socket
\* of ipc_create_socket unless that returned -1, and one on each of the
\* listen_fds descriptors passed in, all with the callback ipc_new_client
listener_watchers(ipc_socket, listen_fds) ==
    (IF ipc_socket = -1 THEN {}
     ELSE { [ passed |-> FALSE, fd |-> ipc_socket, cb |-> "ipc_new_client" ] })
    \cup { [ passed |-> TRUE, fd |-> fd, cb |-> "ipc_new_client" ] :
               fd \in SD_LISTEN_FDS_START..(SD_LISTEN_FDS_START + listen_fds - 1) }

\* the listeners are kept one by one where the host is looked at for them
\* (ListenSpec); elsewhere `listening` says that there is one
KeepListeners(h, started) ==
    IF h.name = "listen" THEN [ h EXCEPT !.listeners = started ] ELSE h

\* the listener of a connection that is not looked at
AnyListener == [ passed |-> FALSE, fd |-> 0, cb |-> "ipc_new_client" ]

\* the started watchers whose socket a connection can arrive on
Listeners == IF host.name = "listen" THEN host.listeners ELSE { AnyListener }

\* a socket creation that does not look at the result of listen()
ipc_create_socket_ignores_listen(outcome) ==
    IF outcome \in { "ok", "listen" } THEN 0 ELSE -1

\* ipc_create_socket: the listening descriptor (written 0 here; client
\* descriptors count from 1), or -1 when socket(), bind() or listen() fails
ipc_create_socket(outcome) ==
    IF outcome = "ok" THEN 0 ELSE -1

main ==
    /\ phase = "startup"
    /\ \E outcome \in CreateOutcomes, listen_fds \in ListenFds :
          IF outcome = "set_nonblock"
          THEN \* set_nonblock(sockfd) fails inside ipc_create_socket: err(-1, ...)
               /\ phase' = "exited"
               /\ listening' = FALSE
               /\ host' = host
               /\ op' = [ name |-> "main", outcome |-> outcome, ipc_socket |-> -1,
                          ipc_io |-> FALSE, listen_fds |-> listen_fds ]
          ELSE LET ipc_socket == ipc_create_socket(outcome)
                   started    == listener_watchers(ipc_socket, listen_fds)
               IN  /\ phase' = "running"
                   /\ listening' = (started # {})
                   /\ host' = KeepListeners(host, started)
                   /\ op' = [ name |-> "main", outcome |-> outcome,
                              ipc_socket |-> ipc_socket,
                              ipc_io |-> (ipc_socket # -1),
                              listen_fds |-> listen_fds ]
    /\ out' = <<>>
    /\ before' = all_clients
    /\ UNCHANGED << all_clients, heap, watchers, fdtable, nconn, pending, peer_closed, stream >>

(***************************************************************************)
(* The peers.                                                              *)
(***************************************************************************)
\* the peer of connection c writes one complete request
PeerWrite(c) ==
    /\ phase = "running"
    /\ c \in DOMAIN pending
    /\ c \notin peer_closed
    /\ TotalPending < MaxPending
    /\ pending' = [ pending EXCEPT ![c] = @ + 1 ]
    /\ op' = [ name |-> "peer_write", conn |-> c ]
    /\ out' = <<>>
    /\ before' = all_clients
    /\ UNCHANGED << all_clients, heap, watchers, fdtable, nconn, peer_closed, phase, listening, stream, host >>

\* the peer of connection c closes its socket
PeerClose(c) ==
    /\ phase = "running"
    /\ c \in DOMAIN pending
    /\ c \notin peer_closed
    /\ peer_closed' = peer_closed \cup { c }
    /\ op' = [ name |-> "peer_close", conn |-> c ]
    /\ out' = <<>>
    /\ before' = all_clients
    /\ UNCHANGED << all_clients, heap, watchers, fdtable, nconn, pending, phase, listening, stream, host >>

(***************************************************************************)
(* ipc_new_client: the listener's callback.                                *)
(***************************************************************************)
\* an accept that inserts the new client at the head of the registry
InsertClient_head(clients, new) == << new >> \o clients

\* TAILQ_INSERT_TAIL(&all_clients, new, clients)
InsertClient(clients, new) == Append(clients, new)

\* a callback that stops the listener's watcher when accept() fails
accept_failed_stops_listener(clients, listener) ==
    [ clients |-> clients, listener |-> FALSE ]

\* accept() < 0: return (after perror unless errno is EINTR); the registry
\* and the listener's watcher are as they were
accept_failed(clients, listener) ==
    [ clients |-> clients, listener |-> listener ]

ipc_new_client ==
    /\ phase = "running"
    /\ listening
    /\ \E w \in Listeners :
          \/ \* accept() fails: EINTR, or another error that is only reported
             /\ \E e \in { "EINTR", "error" } :
                   op' = [ name |-> "ipc_new_client", result |-> e, fd |-> 0, listener |-> w ]
             /\ all_clients' = accept_failed(all_clients, listening).clients
             /\ listening' = accept_failed(all_clients, listening).listener
             /\ out' = <<>>
             /\ before' = all_clients
             /\ UNCHANGED << heap, watchers, fdtable, nconn, pending, peer_closed, phase, stream, host >>
          \/ \* accept() succeeds, set_nonblock() fails: err(-1, ...) leaves the process
             /\ nconn < MaxConns
             /\ fdtable' = (LowestFreeFd :> (nconn + 1)) @@ fdtable
             /\ nconn' = nconn + 1
             /\ pending' = ((nconn + 1) :> 0) @@ pending
             /\ phase' = "exited"
             /\ op' = [ name |-> "ipc_new_client", result |-> "set_nonblock", fd |-> LowestFreeFd,
                        listener |-> w ]
             /\ out' = <<>>
             /\ before' = all_clients
             /\ UNCHANGED << all_clients, heap, watchers, peer_closed, listening, stream, host >>
          \/ \* accept() succeeds: the watcher is started, the client is appended
             /\ nconn < MaxConns
             /\ fdtable' = (LowestFreeFd :> (nconn + 1)) @@ fdtable
             /\ nconn' = nconn + 1
             /\ pending' = ((nconn + 1) :> 0) @@ pending
             /\ watchers' = watchers \cup { LowestFreeFd }
             /\ all_clients' = InsertClient(all_clients, [ fd |-> LowestFreeFd, events |-> <<>> ])
             /\ op' = [ name |-> "ipc_new_client", result |-> "ok", fd |-> LowestFreeFd,
                        listener |-> w ]
             /\ out' = <<>>
             /\ before' = all_clients
             /\ UNCHANGED << heap, peer_closed, phase, listening, stream, host >>

(***************************************************************************)
(* ipc_receive_message: the read callback of a client connection.          *)
(***************************************************************************)
\* an error path that frees the strings but leaves the entry in the registry
drop_client_keep_entry(clients, hp, fd, c) ==
    LET idx == FindClient(clients, fd)
    IN  IF idx = 0 THEN [ clients |-> clients, hp |-> hp ]
        ELSE [ clients |-> clients,
               hp |-> hp \ { << c, i >> : i \in 1..num_events(clients[idx]) } ]

\* the TAILQ_FOREACH of the error path: the first entry with this descriptor
\* has its strings freed and is removed and freed
\* a teardown that fills the place of the removed entry with the last one
drop_client_swap_last(clients, hp, fd, c) ==
    LET idx == FindClient(clients, fd)
    IN  IF idx = 0 THEN [ clients |-> clients, hp |-> hp ]
        ELSE [ clients |-> IF idx = Len(clients) THEN RemoveAt(clients, idx)
                           ELSE [ RemoveAt(clients, Len(clients)) EXCEPT ![idx] = clients[Len(clients)] ],
               hp |-> hp \ { << c, i >> : i \in 1..num_events(clients[idx]) } ]

drop_client(clients, hp, fd, c) ==
    LET idx == FindClient(clients, fd)
    IN  IF idx = 0 THEN [ clients |-> clients, hp |-> hp ]
        ELSE [ clients |-> RemoveAt(clients, idx),
               hp |-> hp \ { << c, i >> : i \in 1..num_events(clients[idx]) } ]

\* a callback that takes the would-block result for an error and tears the
\* connection down
spurious_read_as_error(clients, hp, ws, fds, fd, c) ==
    [ clients |-> drop_client(clients, hp, fd, c).clients,
      hp |-> drop_client(clients, hp, fd, c).hp,
      watchers |-> ws \ { fd },
      fdtable |-> Without(fds, fd) ]

\* ret == -1 && errno == EAGAIN: the callback returns at once
spurious_read(clients, hp, ws, fds, fd, c) ==
    [ clients |-> clients, hp |-> hp, watchers |-> ws, fdtable |-> fds ]

ipc_receive_message(fd) ==
    /\ phase = "running"
    /\ fd \in watchers
    /\ LET c == ConnOf(fd)
       IN  \/ \* ret == -1 && errno == EAGAIN: a spurious wake-up
              /\ pending[c] = 0
              /\ c \notin peer_closed
              /\ op' = [ name |-> "ipc_receive_message", fd |-> fd, conn |-> c,
                         ret |-> "EAGAIN" ]
              /\ LET kept == spurious_read(all_clients, heap, watchers, fdtable, fd, c)
                 IN  /\ all_clients' = kept.clients
                     /\ heap' = kept.hp
                     /\ watchers' = kept.watchers
                     /\ fdtable' = kept.fdtable
              /\ out' = <<>>
              /\ before' = all_clients
              /\ UNCHANGED << nconn, pending, peer_closed, phase, listening, stream, host >>
           \/ \* ret < 0 otherwise: end of file, a read error, a bad magic
              /\ \E ret \in { "EOF", "error", "magic" } :
                    /\ ret = "EOF" => pending[c] = 0 /\ c \in peer_closed
                    /\ ret = "magic" => pending[c] > 0
                    /\ op' = [ name |-> "ipc_receive_message", fd |-> fd, conn |-> c,
                               ret |-> ret ]
              /\ LET dropped == drop_client(all_clients, heap, fd, c)
                 IN  /\ all_clients' = dropped.clients
                     /\ heap' = dropped.hp
              /\ fdtable' = Without(fdtable, fd)
              /\ watchers' = watchers \ { fd }
              /\ pending' = Without(pending, c)
              /\ peer_closed' = peer_closed \ { c }
              /\ out' = <<>>
              /\ before' = all_clients
              /\ UNCHANGED << nconn, phase, listening, stream, host >>
           \/ \* ret == 0: one complete message was read and is dispatched
              /\ pending[c] > 0
              /\ \E req \in Requests(MaxStrings - TotalStrings) :
                    LET done == handlers(all_clients, heap, fd, c, req.type,
                                         req.payload, req.exec)
                    IN  /\ all_clients' = done.clients
                        /\ heap' = done.hp
                        /\ out' = Deliver(done.msgs)
                        /\ before' = all_clients
                        /\ op' = [ name |-> "ipc_receive_message", fd |-> fd, conn |-> c,
                                   ret |-> "message", type |-> req.type,
                                   payload |-> req.payload, exec |-> req.exec,
                                   calls |-> done.calls ]
                        /\ phase' = IF Aborted(done.calls) THEN "aborted" ELSE phase
              /\ pending' = [ pending EXCEPT ![c] = @ - 1 ]
              /\ UNCHANGED << watchers, fdtable, nconn, peer_closed, listening, stream, host >>

(***************************************************************************)
(* The host publishes an event: a call of ipc_send_event from outside a    *)
(* request handler.                                                        *)
(***************************************************************************)
Publish ==
    /\ phase = "running"
    /\ \E event \in EventNames, kind \in EventKinds :
          /\ out' = Deliver(ipc_send_event(all_clients, event, kind.type, kind.payload))
          /\ all_clients' = registry_after_send_event(all_clients, event)
          /\ before' = all_clients
          /\ op' = [ name |-> "ipc_send_event", event |-> event,
                     type |-> kind.type, payload |-> kind.payload ]
    /\ UNCHANGED << heap, watchers, fdtable, nconn, pending,
                    peer_closed, phase, listening, stream, host >>

(***************************************************************************)
(* The host exits or restarts: ipc_shutdown, then the process leaves the   *)
(* event loop.                                                             *)
(***************************************************************************)
Shutdown ==
    /\ phase = "running"
    /\ LET st == ipc_shutdown([ clients |-> all_clients, fds |-> OpenFds,
                                 hp |-> heap, ws |-> watchers ])
       IN  /\ all_clients' = st.clients
           /\ fdtable' = [ fd \in st.fds |-> fdtable[fd] ]
           /\ heap' = st.hp
           /\ watchers' = st.ws
    /\ phase' = "exited"
    /\ op' = [ name |-> "ipc_shutdown" ]
    /\ out' = <<>>
    /\ before' = all_clients
    /\ UNCHANGED << nconn, pending, peer_closed, listening, stream, host >>

Next ==
    \/ main
    \/ ipc_new_client
    \/ \E fd \in watchers : ipc_receive_message(fd)
    \/ Publish
    \/ Shutdown
    \/ \E c \in DOMAIN pending : PeerWrite(c)
    \/ \E c \in DOMAIN pending : PeerClose(c)

Spec == Init /\ [][Next]_vars

\* The reactor is level-triggered: a descriptor that stays readable (unread
\* requests, or end of file) has its callback run again by ev_loop.
\* Liveness is checked over the runs with at most MaxFairConns accepts.
FairNext == Next /\ nconn' <= MaxFairConns

FairSpec ==
    /\ Init
    /\ [][FairNext]_vars
    /\ \A fd \in 1..MaxFairConns : WF_vars(ipc_receive_message(fd))

\* The listeners one by one: the same steps, with the watchers that main
\* starts kept in the host, over the runs with at most MaxFairConns accepts.
ListenInit ==
    /\ all_clients = <<>>
    /\ heap = {}
    /\ watchers = {}
    /\ fdtable = [ fd \in {} |-> 0 ]
    /\ nconn = 0
    /\ pending = [ c \in {} |-> 0 ]
    /\ peer_closed = {}
    /\ phase = "startup"
    /\ listening = FALSE
    /\ stream = NoStream
    /\ host = [ name |-> "listen", listeners |-> {} ]
    /\ op = [ name |-> "init" ]
    /\ before = <<>>
    /\ out = <<>>

ListenSpec == ListenInit /\ [][FairNext]_vars

(***************************************************************************)
(* ipc_send_event step by step.  The loop over the registry is taken one   *)
(* client at a time: `current' is the entry the loop stands on (by its     *)
(* descriptor, 0 for NULL).  The peers write and close at any time; the    *)
(* callbacks of the reactor run from ev_loop, one after the other in the   *)
(* one thread of the process, and so not while a publish is in its loop.   *)
(***************************************************************************)
\* a reactor that runs a callback at any time
BetweenCallbacks_any_time(h) == TRUE

\* ev_loop is not inside a callback or a publish called from one
BetweenCallbacks(h) == h.name = "iter" => ~h.active

\* no publish is in its loop
IterIdle ==
    [ name |-> "iter", active |-> FALSE, current |-> 0, event |-> <<>>,
      kind |-> [ type |-> EventType(0), payload |-> <<>> ], start |-> <<>>,
      visited |-> <<>>, sent |-> <<>>, stale |-> FALSE ]

IterInit ==
    /\ all_clients = <<>>
    /\ heap = {}
    /\ watchers = {}
    /\ fdtable = [ fd \in {} |-> 0 ]
    /\ nconn = 0
    /\ pending = [ c \in {} |-> 0 ]
    /\ peer_closed = {}
    /\ phase = "startup"
    /\ listening = FALSE
    /\ stream = NoStream
    /\ host = IterIdle
    /\ op = [ name |-> "init" ]
    /\ before = <<>>
    /\ out = <<>>

\* TAILQ_FOREACH(current, &all_clients, clients): current = TAILQ_FIRST
send_event_begin ==
    /\ phase = "running"
    /\ host.name = "iter"
    /\ ~host.active
    /\ \E event \in EventNames, kind \in EventKinds :
          /\ host' = [ host EXCEPT !.active = TRUE,
                                   !.current = IF all_clients = <<>> THEN 0 ELSE all_clients[1].fd,
                                   !.event = event, !.kind = kind, !.start = all_clients,
                                   !.visited = <<>>, !.sent = <<>> ]
          /\ op' = [ name |-> "send_event_begin", event |-> event,
                     type |-> kind.type, payload |-> kind.payload ]
    /\ out' = <<>>
    /\ before' = all_clients
    /\ UNCHANGED << all_clients, heap, watchers, fdtable, nconn, pending, peer_closed,
                    phase, listening, stream >>

\* one turn of the loop: the test of current against NULL, the search of
\* current->events, the send, and current = TAILQ_NEXT(current); reading an
\* entry that is in the registry no longer is a use of freed memory
send_event_next ==
    /\ phase = "running"
    /\ host.name = "iter"
    /\ host.active
    /\ LET idx == FindClient(all_clients, host.current)
       IN  IF host.current = 0
           THEN /\ host' = [ IterIdle EXCEPT !.stale = host.stale ]
                /\ op' = [ name |-> "ipc_send_event", event |-> host.event,
                           type |-> host.kind.type, payload |-> host.kind.payload,
                           start |-> host.start, visited |-> host.visited ]
                /\ out' = host.sent
           ELSE IF idx = 0
           THEN /\ host' = [ IterIdle EXCEPT !.stale = TRUE ]
                /\ op' = [ name |-> "send_event_next", fd |-> host.current ]
                /\ out' = out
           ELSE LET current == all_clients[idx]
                    sends   == IF interested(current, host.event)
                               THEN << ipc_send_message(current.fd, strlen(host.kind.payload),
                                                        host.kind.type, host.kind.payload) >>
                               ELSE <<>>
                IN  /\ host' = [ host EXCEPT
                                   !.current = IF idx < Len(all_clients)
                                               THEN all_clients[idx + 1].fd ELSE 0,
                                   !.visited = Append(@, current.fd),
                                   !.sent = @ \o Deliver(sends) ]
                    /\ op' = [ name |-> "send_event_next", fd |-> current.fd ]
                    /\ out' = out
    /\ UNCHANGED << all_clients, heap, watchers, fdtable, nconn, pending, peer_closed,
                    phase, listening, stream, before >>

IterNext ==
    /\ \/ main
       \/ send_event_begin
       \/ send_event_next
       \/ BetweenCallbacks(host) /\ ipc_new_client
       \/ BetweenCallbacks(host) /\ \E fd \in watchers : ipc_receive_message(fd)
       \/ \E c \in DOMAIN pending : PeerWrite(c)
       \/ \E c \in DOMAIN pending : PeerClose(c)
    /\ nconn' <= MaxFairConns

IterSpec == IterInit /\ [][IterNext]_vars

(***************************************************************************)
(* The handlers as functions.  handlers[] is a global table: a handler can *)
(* be called with any descriptor and any registry.  HandlerSpec starts in  *)
(* a registry drawn from Registries, with the descriptors 1..MaxConns open *)
(* (with or without an entry), and calls handlers[message_type] on any of  *)
(* them.                                                                   *)
(***************************************************************************)
\* the subscription lists an entry starts with
StartLists == { <<>>, << << 119, 115 >> >>, << << 119 >> >> }

\* registries of at most two entries with different descriptors
Registries ==
    { <<>> }
    \cup { << [ fd |-> f, events |-> e ] >> : f \in 1..MaxConns, e \in StartLists }
    \cup { r \in { << [ fd |-> f, events |-> <<>> ], [ fd |-> g, events |-> d ] >> :
                     f \in 1..MaxConns, g \in 1..MaxConns, d \in StartLists } :
             r[1].fd # r[2].fd }

\* the strings of a registry, as the heap holds them
StringsOf(r) ==
    UNION { { << r[i].fd, k >> : k \in 1..Len(r[i].events) } : i \in 1..Len(r) }

HandlerInit ==
    /\ all_clients \in Registries
    /\ heap = StringsOf(all_clients)
    /\ watchers = 1..MaxConns
    /\ fdtable = [ fd \in 1..MaxConns |-> fd ]
    /\ nconn = MaxConns
    /\ pending = [ c \in 1..MaxConns |-> 0 ]
    /\ peer_closed = {}
    /\ phase = "running"
    /\ listening = TRUE
    /\ stream = NoStream
    /\ host = NoHost
    /\ op = [ name |-> "init" ]
    /\ before = <<>>
    /\ out = <<>>

\* COMMAND requests with more command texts, the empty one and one with a
\* zero byte in it, and another result of the executor
CommandRequests ==
    { [ type |-> I3_IPC_MESSAGE_TYPE_COMMAND, payload |-> p,
        exec |-> [ e EXCEPT !.json = ReplySuccessTrue ] ] :
        p \in { <<>>, << 119, 0, 115 >> },
        e \in { x \in Execs : x.events = <<>> } }

CallHandler ==
    \E fd \in 1..MaxConns :
        \E req \in Requests(MaxStrings - TotalStrings) \cup CommandRequests :
            LET done == handlers(all_clients, heap, fd, ConnOf(fd), req.type,
                                 req.payload, req.exec)
            IN  /\ all_clients' = done.clients
                /\ heap' = done.hp
                /\ out' = Deliver(done.msgs)
                /\ before' = all_clients
                /\ op' = [ name |-> "handlers", fd |-> fd, type |-> req.type,
                           payload |-> req.payload, exec |-> req.exec,
                           calls |-> done.calls ]
                /\ phase' = IF Aborted(done.calls) THEN "aborted" ELSE phase
                /\ UNCHANGED << watchers, fdtable, nconn, pending, peer_closed,
                                listening, stream, host >>

HandlerSpec == HandlerInit /\ [][CallHandler]_vars

(***************************************************************************)
(* GET_BAR_CONFIG alone: the handler is called with every payload below on  *)
(* every list of bar configurations below.                                  *)
(***************************************************************************)
\* the payloads: empty, "w", "W", "ws", "x", and "w" followed by a zero byte
\* and "s"
BarPayloads == { <<>>, << 119 >>, << 87 >>, << 119, 115 >>, << 120 >>, << 119, 0, 115 >> }

\* the lists of bar configurations, by the ids in configuration order
BarConfigLists ==
    { <<>>,
      << [ id |-> << 119 >> ] >>,
      << [ id |-> << 119, 115 >> ], [ id |-> << 119 >> ] >>,
      << [ id |-> << 87 >> ], [ id |-> << 119 >> ], [ id |-> << 119, 115 >> ] >> }

CallBarConfig ==
    \E fd \in 1..MaxConns, message \in BarPayloads, barconfigs \in BarConfigLists :
        LET exec == [ NoExec EXCEPT !.barconfigs = barconfigs ]
            done == handlers(all_clients, heap, fd, ConnOf(fd),
                             I3_IPC_MESSAGE_TYPE_GET_BAR_CONFIG, message, exec)
        IN  /\ all_clients' = done.clients
            /\ heap' = done.hp
            /\ out' = Deliver(done.msgs)
            /\ before' = all_clients
            /\ op' = [ name |-> "handlers", fd |-> fd,
                       type |-> I3_IPC_MESSAGE_TYPE_GET_BAR_CONFIG,
                       payload |-> message, exec |-> exec, calls |-> done.calls ]
            /\ phase' = IF Aborted(done.calls) THEN "aborted" ELSE phase
            /\ UNCHANGED << watchers, fdtable, nconn, pending, peer_closed,
                            listening, stream, host >>

BarSpec == HandlerInit /\ [][CallBarConfig]_vars

(***************************************************************************)
(* GET_TREE alone: the handler is called on trees of one or two containers  *)
(* with every layout, in a build with assertions and in one with NDEBUG.    *)
(***************************************************************************)
\* one request is looked at in each behaviour
CallTree ==
    /\ phase = "running"
    /\ op.name = "init"
    /\ \E fd \in 1..MaxConns, croot \in Trees, ndebug \in BOOLEAN :
          LET exec == [ NoExec EXCEPT !.croot = croot, !.ndebug = ndebug ]
              done == handlers(all_clients, heap, fd, ConnOf(fd),
                               I3_IPC_MESSAGE_TYPE_GET_TREE, <<>>, exec)
          IN  /\ all_clients' = done.clients
              /\ heap' = done.hp
              /\ out' = Deliver(done.msgs)
              /\ before' = all_clients
              /\ op' = [ name |-> "handlers", fd |-> fd, type |-> I3_IPC_MESSAGE_TYPE_GET_TREE,
                         payload |-> <<>>, exec |-> exec, calls |-> done.calls ]
              /\ phase' = IF Aborted(done.calls) THEN "aborted" ELSE phase
              /\ UNCHANGED << watchers, fdtable, nconn, pending, peer_closed,
                              listening, stream, host >>

\* one client without subscriptions is registered
TreeInit ==
    /\ HandlerInit
    /\ Len(all_clients) = 1
    /\ all_clients[1].events = <<>>

TreeSpec == TreeInit /\ [][CallTree]_vars

(***************************************************************************)
(* The framing codec (ipc_send_message and ipc_recv_message of libi3, used  *)
(* by the client mode of main and by ipc_receive_message).  Its code is not *)
(* part of the sources at hand; it is written here from the wire format of  *)
(* the specification: magic, 4-byte length, 4-byte type, payload, with a    *)
(* 14-byte header.                                                          *)
(***************************************************************************)
\* the bytes of "i3-ipc"
I3_IPC_MAGIC == << 105, 51, 45, 105, 112, 99 >>

HeaderLen == Len(I3_IPC_MAGIC) + 4 + 4

\* a 4-byte field in the other byte order than DecodeU32 reads
EncodeU32_big_endian(n) ==
    << (n \div 16777216) % 256, (n \div 65536) % 256, (n \div 256) % 256, n % 256 >>

\* an unsigned 32-bit number as 4 bytes, least significant first
EncodeU32(n) ==
    << n % 256, (n \div 256) % 256, (n \div 65536) % 256, (n \div 16777216) % 256 >>

DecodeU32(b) == b[1] + 256 * b[2] + 65536 * b[3] + 16777216 * (b[4] % 128)

\* the type field: events have the highest bit set, which sets them apart
\* from the requests and replies
EncodeType(type) ==
    LET b == EncodeU32(type.code)
    IN  << b[1], b[2], b[3], (b[4] % 128) + (IF type.event THEN 128 ELSE 0) >>

DecodeType(b) == [ event |-> b[4] >= 128, code |-> DecodeU32(b) ]

encode(type, payload) ==
    I3_IPC_MAGIC \o EncodeU32(strlen(payload)) \o EncodeType(type) \o payload

Incomplete == [ status |-> "Incomplete" ]

Invalid == [ status |-> "Invalid" ]

\* a decoder that hands out a message as soon as its header is there, with
\* the part of the payload that has arrived
decode_header_only(buf) ==
    IF Len(buf) < HeaderLen THEN Incomplete
    ELSE IF SubSeq(buf, 1, Len(I3_IPC_MAGIC)) # I3_IPC_MAGIC THEN Invalid
    ELSE LET length == DecodeU32(SubSeq(buf, 7, 10))
             have   == IF Len(buf) < HeaderLen + length THEN Len(buf) ELSE HeaderLen + length
         IN  [ status |-> "message", type |-> DecodeType(SubSeq(buf, 11, 14)),
               payload |-> SubSeq(buf, HeaderLen + 1, have), used |-> have ]

\* decode of the bytes that are available: a message and the number of bytes
\* it takes, Incomplete, or Invalid
decode(buf) ==
    IF Len(buf) < HeaderLen THEN Incomplete
    ELSE IF SubSeq(buf, 1, Len(I3_IPC_MAGIC)) # I3_IPC_MAGIC THEN Invalid
    ELSE LET length == DecodeU32(SubSeq(buf, 7, 10))
         IN  IF Len(buf) < HeaderLen + length THEN Incomplete
             ELSE [ status |-> "message", type |-> DecodeType(SubSeq(buf, 11, 14)),
                    payload |-> SubSeq(buf, HeaderLen + 1, HeaderLen + length),
                    used |-> HeaderLen + length ]

FrameTypes == { ReplyType(I3_IPC_MESSAGE_TYPE_COMMAND), ReplyType(I3_IPC_MESSAGE_TYPE_GET_VERSION),
                ReplyType(258), EventType(0) }

FramePayloads == { <<>>, << 0 >>, << 91, 93 >> }

FrameMessages == { [ type |-> t, payload |-> p ] : t \in FrameTypes, p \in FramePayloads }

\* a sender that does not speak the protocol: the first byte is not the magic's
Garble(bytes) == [ bytes EXCEPT ![1] = 0 ]

\* the end of the k-th message in the stream
Boundary(msgs, k) == SumLen([ i \in 1..k |-> encode(msgs[i].type, msgs[i].payload) ])

\* a peer is about to send two messages back to back; the second one may come
\* from a sender that does not speak the protocol
FrameInit ==
    /\ all_clients = <<>>
    /\ heap = {}
    /\ watchers = {}
    /\ fdtable = [ fd \in {} |-> 0 ]
    /\ nconn = 0
    /\ pending = [ c \in {} |-> 0 ]
    /\ peer_closed = {}
    /\ phase = "running"
    /\ listening = FALSE
    /\ host = NoHost
    /\ \E m1 \in FrameMessages, m2 \in FrameMessages, garbled \in BOOLEAN :
          stream = [ msgs |-> << m1, m2 >>,
                     bytes |-> encode(m1.type, m1.payload)
                               \o (IF garbled THEN Garble(encode(m2.type, m2.payload))
                                   ELSE encode(m2.type, m2.payload)),
                     garbled |-> garbled, arrived |-> 0, consumed |-> 0,
                     delivered |-> 0, closed |-> FALSE ]
    /\ op = [ name |-> "init" ]
    /\ before = <<>>
    /\ out = <<>>

\* the transport delivers some more bytes of the stream
Arrive ==
    /\ ~stream.closed
    /\ \E n \in 1..(Len(stream.bytes) - stream.arrived) :
          /\ stream' = [ stream EXCEPT !.arrived = @ + n ]
          /\ op' = [ name |-> "arrive", n |-> n ]
    /\ UNCHANGED << all_clients, heap, watchers, fdtable, nconn, pending, peer_closed,
                    phase, listening, before, out, host >>

\* the receiver is notified and decodes what is available: it takes a whole
\* message, retries later on Incomplete, and closes on Invalid
Receive ==
    /\ ~stream.closed
    /\ LET buf == SubSeq(stream.bytes, stream.consumed + 1, stream.arrived)
           r   == decode(buf)
       IN  /\ stream' = IF r.status = "message"
                           THEN [ stream EXCEPT !.consumed = @ + r.used, !.delivered = @ + 1 ]
                        ELSE IF r.status = "Invalid"
                           THEN [ stream EXCEPT !.closed = TRUE ]
                        ELSE stream
           /\ op' = [ name |-> "decode", result |-> r, available |-> stream.arrived,
                      consumed |-> stream.consumed, index |-> stream.delivered + 1 ]
    /\ UNCHANGED << all_clients, heap, watchers, fdtable, nconn, pending, peer_closed,
                    phase, listening, before, out, host >>

FrameNext == Arrive \/ Receive

FrameSpec == FrameInit /\ [][FrameNext]_vars

(***************************************************************************)
(* The socket path: the choice of config.ipc_socket_path in main, mkdirp   *)
(* and ipc_create_socket with the directories it finds.  A path is the     *)
(* sequence of its components, the root directory the empty one; a file    *)
(* name has one component at least.                                        *)
(***************************************************************************)
\* the null pointer where a path is expected
NULL == <<>>

\* the calls of ipc_create_socket in one behaviour
MaxCreateCalls == 2

\* the home directory that resolve_tilde puts in the place of a leading ~
Home == << "home" >>

\* resolve_tilde(filename)
resolve_tilde(filename) ==
    IF filename[1] = "~" THEN Home \o Tail(filename) ELSE filename

\* dirname(path)
dirname(path) == SubSeq(path, 1, Len(path) - 1)

\* get_process_filename("ipc-socket"): a name under /tmp made of the pid
get_process_filename(pid) ==
    << "tmp", "i3", IF pid = 1 THEN "ipc-socket.1" ELSE "ipc-socket.2" >>

\* the socket paths a configuration or the environment gives
Filenames ==
    { << "~", "i3", "sock" >>, << "tmp", "i3", "sock" >>, << "run", "sock" >>, << "sock" >> }

\* the sets of directories that exist at the start: the root always, a
\* directory only with its parent
DirSets ==
    { { <<>> } \cup h \cup t \cup r :
        h \in { {}, { << "home" >> }, { << "home" >>, << "home", "i3" >> } },
        t \in { {}, { << "tmp" >> }, { << "tmp" >>, << "tmp", "i3" >> } },
        r \in { {}, { << "run" >> } } }

\* main: config.ipc_socket_path after the fallbacks
socket_path(config_path, I3SOCK, pid) ==
    IF config_path # NULL THEN config_path
    ELSE IF I3SOCK # NULL THEN I3SOCK
    ELSE get_process_filename(pid)

\* mkdir(path, 0755): the directories afterwards and errno
mkdir(dirs, readonly, path) ==
    IF path \in dirs THEN [ dirs |-> dirs, errno |-> "EEXIST" ]
    ELSE IF dirname(path) \notin dirs THEN [ dirs |-> dirs, errno |-> "ENOENT" ]
    ELSE IF dirname(path) \in readonly THEN [ dirs |-> dirs, errno |-> "EACCES" ]
    ELSE [ dirs |-> dirs \cup { path }, errno |-> "" ]

\* a mkdirp that does not go up to the missing parents
mkdirp_one_level(dirs, readonly, path) ==
    LET made == mkdir(dirs, readonly, path)
    IN  [ dirs |-> made.dirs, result |-> made.errno = "" ]

\* mkdirp(path): mkdir; on ENOENT the parent first, then the path again
RECURSIVE mkdirp(_, _, _)
mkdirp(dirs, readonly, path) ==
    LET made == mkdir(dirs, readonly, path)
    IN  IF made.errno = "" THEN [ dirs |-> made.dirs, result |-> TRUE ]
        ELSE IF made.errno # "ENOENT" THEN [ dirs |-> dirs, result |-> FALSE ]
        ELSE LET parent == mkdirp(dirs, readonly, dirname(path))
             IN  IF parent.result THEN mkdirp(parent.dirs, readonly, path)
                 ELSE [ dirs |-> parent.dirs, result |-> FALSE ]

\* an ipc_create_socket that leaves current_socketpath alone when it fails
create_socket_keeps_path(h, filename, outcome) ==
    LET resolved == resolve_tilde(filename)
        dir      == dirname(resolved)
        dirs     == IF dir \in h.dirs THEN h.dirs ELSE mkdirp(h.dirs, h.readonly, dir).dirs
        failing  == IF outcome # "socket" /\ dir \notin dirs THEN "bind" ELSE outcome
        sockfd   == ipc_create_socket(failing)
    IN  [ dirs |-> dirs, resolved |-> resolved, failing |-> failing, ret |-> sockfd,
          current_socketpath |-> IF sockfd = -1 THEN h.current_socketpath ELSE resolved ]

\* ipc_create_socket(filename) with the directories: current_socketpath is
\* freed and reset, the parent directory is made when it does not exist,
\* bind() fails in a directory that does not exist, and only the last
\* statement sets current_socketpath
create_socket(h, filename, outcome) ==
    LET resolved == resolve_tilde(filename)
        dir      == dirname(resolved)
        dirs     == IF dir \in h.dirs THEN h.dirs ELSE mkdirp(h.dirs, h.readonly, dir).dirs
        failing  == IF outcome # "socket" /\ dir \notin dirs THEN "bind" ELSE outcome
        sockfd   == ipc_create_socket(failing)
    IN  [ dirs |-> dirs, resolved |-> resolved, failing |-> failing, ret |-> sockfd,
          current_socketpath |-> IF sockfd = -1 THEN NULL ELSE resolved ]

PathInit ==
    /\ all_clients = <<>>
    /\ heap = {}
    /\ watchers = {}
    /\ fdtable = [ fd \in {} |-> 0 ]
    /\ nconn = 0
    /\ pending = [ c \in {} |-> 0 ]
    /\ peer_closed = {}
    /\ phase = "startup"
    /\ listening = FALSE
    /\ stream = NoStream
    /\ \E dirs \in DirSets, config_path \in { NULL, << "~", "i3", "sock" >>, << "run", "sock" >> },
          I3SOCK \in { NULL, << "tmp", "i3", "sock" >>, << "sock" >> }, pid \in 1..2 :
          \E readonly \in { {} } \cup { { d } : d \in dirs } :
              host = [ name |-> "path", dirs |-> dirs, readonly |-> readonly,
                       config_path |-> config_path, I3SOCK |-> I3SOCK, pid |-> pid,
                       ipc_socket_path |-> NULL, current_socketpath |-> NULL, calls |-> 0 ]
    /\ op = [ name |-> "init" ]
    /\ before = <<>>
    /\ out = <<>>

\* main, after load_configuration: the fallbacks of config.ipc_socket_path
load_socket_path ==
    /\ phase = "startup"
    /\ host.name = "path"
    /\ host.ipc_socket_path = NULL
    /\ host' = [ host EXCEPT !.ipc_socket_path = socket_path(host.config_path, host.I3SOCK, host.pid) ]
    /\ op' = [ name |-> "load_socket_path" ]
    /\ UNCHANGED << all_clients, heap, watchers, fdtable, nconn, pending, peer_closed,
                    phase, listening, stream, before, out >>

\* a call of ipc_create_socket: the one of main with config.ipc_socket_path,
\* and a later one with any file name
call_create_socket ==
    /\ phase = "startup"
    /\ host.name = "path"
    /\ host.ipc_socket_path # NULL
    /\ host.calls < MaxCreateCalls
    /\ \E outcome \in CreateOutcomes,
          filename \in IF host.calls = 0 THEN { host.ipc_socket_path } ELSE Filenames :
          LET made == create_socket(host, filename, outcome)
          IN  /\ host' = [ host EXCEPT !.dirs = made.dirs, !.calls = @ + 1,
                                       !.current_socketpath =
                                           IF made.failing = "set_nonblock" THEN NULL
                                           ELSE made.current_socketpath ]
              /\ phase' = IF made.failing = "set_nonblock" THEN "exited" ELSE phase
              /\ op' = [ name |-> "ipc_create_socket", filename |-> filename,
                         resolved |-> made.resolved, outcome |-> made.failing,
                         ret |-> made.ret, returned |-> made.failing # "set_nonblock",
                         dirs |-> host.dirs, readonly |-> host.readonly,
                         current_socketpath |-> host.current_socketpath ]
    /\ UNCHANGED << all_clients, heap, watchers, fdtable, nconn, pending, peer_closed,
                    listening, stream, before, out >>

PathNext == load_socket_path \/ call_create_socket

PathSpec == PathInit /\ [][PathNext]_vars

(***************************************************************************)
(* main as a client: the arguments left after the options are sent as one  *)
(* command to the running i3.  The runs looked at have one argument left   *)
(* at least and reach the test of optind against argc.                     *)
(***************************************************************************)
\* the arguments left in one run
MaxArgs == 2

\* the texts of an argument: "b", "no", and the empty one
ArgTexts == { << 98 >>, << 110, 111 >>, <<>> }

RECURSIVE SeqsUpTo(_, _)
SeqsUpTo(S, n) ==
    IF n = 0 THEN { <<>> }
    ELSE SeqsUpTo(S, n - 1)
         \cup { Append(q, x) : q \in { r \in SeqsUpTo(S, n - 1) : Len(r) = n - 1 }, x \in S }

\* argv[optind .. argc - 1]
ArgLists == { a \in SeqsUpTo(ArgTexts, MaxArgs) : a # <<>> }

\* how the calls of the client end: root_atom_contents gives no path; socket,
\* connect or ipc_send_message fails; ipc_recv_message returns -1 or another
\* value that is not 0; or a complete message is received
ClientOutcomes == { "no_socket_path", "socket", "connect", "send", "recv_error", "recv_eof", "reply" }

\* the uint32_t of a request type: bit 31 is clear
RequestType(code) == [ event |-> FALSE, code |-> code ]

\* the types a received message can have: the COMMAND reply, another reply,
\* an event (bit 31 set)
ReceivedTypes == { ReplyType(0), ReplyType(2), EventType(0) }

\* the while loop over the arguments: sstrdup of the first, then
\* sasprintf(&both, "%s %s", payload, argv[optind]) for each further one
RECURSIVE join_args(_, _)
join_args(payload, args) ==
    IF args = <<>> THEN payload
    ELSE join_args(payload \o << 32 >> \o Head(args), Tail(args))

\* a client that takes any complete message for the reply
client_mode_any_reply(args, outcome, reply_type) ==
    LET payload == join_args(Head(args), Tail(args))
        request == ipc_send_message(0, strlen(payload),
                                     RequestType(I3_IPC_MESSAGE_TYPE_COMMAND), payload)
    IN  [ client |-> TRUE,
          sent |-> IF outcome \in { "no_socket_path", "socket", "connect" } THEN <<>>
                   ELSE << request >>,
          recvs |-> IF outcome \in { "recv_error", "recv_eof", "reply" } THEN 1 ELSE 0,
          status |-> IF outcome = "reply" THEN 0 ELSE 1 ]

\* the block of main that sends the arguments: what is sent, the calls of
\* ipc_recv_message, and the exit status (return 1, err and errx with
\* EXIT_FAILURE, return 0)
client_mode(args, outcome, reply_type) ==
    LET payload == join_args(Head(args), Tail(args))
        request == ipc_send_message(0, strlen(payload),
                                     RequestType(I3_IPC_MESSAGE_TYPE_COMMAND), payload)
    IN  [ client |-> TRUE,
          sent |-> IF outcome \in { "no_socket_path", "socket", "connect" } THEN <<>>
                   ELSE << request >>,
          recvs |-> IF outcome \in { "recv_error", "recv_eof", "reply" } THEN 1 ELSE 0,
          status |-> IF outcome = "reply" /\ reply_type = RequestType(I3_IPC_MESSAGE_TYPE_COMMAND)
                     THEN 0 ELSE 1 ]

ClientInit ==
    /\ all_clients = <<>>
    /\ heap = {}
    /\ watchers = {}
    /\ fdtable = [ fd \in {} |-> 0 ]
    /\ nconn = 0
    /\ pending = [ c \in {} |-> 0 ]
    /\ peer_closed = {}
    /\ phase = "startup"
    /\ listening = FALSE
    /\ stream = NoStream
    /\ \E args \in ArgLists, only_check_config \in BOOLEAN :
          host = [ name |-> "client", args |-> args, only_check_config |-> only_check_config ]
    /\ op = [ name |-> "init" ]
    /\ before = <<>>
    /\ out = <<>>

\* main from the test `!only_check_config && optind < argc' to its exit:
\* the client, or with -C the check of the configuration, which ends in
\* exit(0) unless the start-up fails before
main_client ==
    /\ phase = "startup"
    /\ host.name = "client"
    /\ \E outcome \in ClientOutcomes, reply_type \in ReceivedTypes, startup_ok \in BOOLEAN :
          LET run == IF ~host.only_check_config
                     THEN client_mode(host.args, outcome, reply_type)
                     ELSE [ client |-> FALSE, sent |-> <<>>, recvs |-> 0,
                            status |-> IF startup_ok THEN 0 ELSE 1 ]
          IN  /\ op' = [ name |-> "main_client", args |-> host.args,
                         only_check_config |-> host.only_check_config,
                         outcome |-> outcome, reply_type |-> reply_type,
                         client |-> run.client, recvs |-> run.recvs, status |-> run.status ]
              /\ out' = run.sent
    /\ phase' = "exited"
    /\ UNCHANGED << all_clients, heap, watchers, fdtable, nconn, pending, peer_closed,
                    listening, stream, host, before >>

ClientSpec == ClientInit /\ [][main_client]_vars

(***************************************************************************)
(* xkb_got_event: one run of the callback over the events that are        *)
(* pending on the XKB display.  An event is a record [kind, group]: kind   *)
(* "other" for an event whose type is not xkb_event_base, "map" for        *)
(* XkbMapNotify, "state" for XkbStateNotify with its group, "unknown" for  *)
(* any other XKB event.  The calls into the key binding code are kept in   *)
(* order, each with the number of the event it was made for (0 for the     *)
(* calls after the loop).                                                  *)
(***************************************************************************)
\* the events pending in one run
MaxXkbEvents == 3

XkbGroup1Index == 0

XkbGroup2Index == 1

\* the groups of a state event: XkbGroup1Index .. XkbGroup4Index
XkbGroups == 0..3

XkbEvents ==
    { [ kind |-> k, group |-> 0 ] : k \in { "other", "map", "unknown" } }
    \cup { [ kind |-> "state", group |-> g ] : g \in XkbGroups }

XkbBatches == SeqsUpTo(XkbEvents, MaxXkbEvents)

Call(name, arg, event) == [ call |-> name, arg |-> arg, event |-> event ]

\* the calls after the loop for a changed mapping: the key symbols are
\* loaded again, the keys ungrabbed, the bindings translated and grabbed
regrab(xkb_current_group) ==
    << Call("xcb_key_symbols_free", FALSE, 0), Call("xcb_key_symbols_alloc", FALSE, 0),
       Call("aio_get_mod_mask_for", FALSE, 0), Call("ungrab_all_keys", FALSE, 0),
       Call("translate_keysyms", FALSE, 0),
       Call("grab_all_keys", xkb_current_group = XkbGroup2Index, 0) >>

\* the while loop from the n-th pending event on; st is the record
\* [xkb_current_group, mapping_changed, calls]
RECURSIVE xkb_loop(_, _, _)
xkb_loop(st, events, n) ==
    IF n > Len(events) THEN st
    ELSE LET ev == events[n]
         IN  IF ev.kind = "other" THEN xkb_loop(st, events, n + 1)
             ELSE IF ev.kind = "map"
                  THEN xkb_loop([ st EXCEPT !.mapping_changed = TRUE ], events, n + 1)
             ELSE IF ev.kind # "state" THEN xkb_loop(st, events, n + 1)
             ELSE IF st.xkb_current_group = ev.group THEN xkb_loop(st, events, n + 1)
             ELSE xkb_loop(
                     [ st EXCEPT
                         !.xkb_current_group = ev.group,
                         !.calls = @ \o << Call("xkb_current_group", FALSE, n) >>
                                     \o (IF ev.group = XkbGroup2Index
                                         THEN << Call("grab_all_keys", TRUE, n) >>
                                         ELSE <<>>)
                                     \o (IF ev.group = XkbGroup1Index
                                         THEN << Call("ungrab_all_keys", FALSE, n),
                                                 Call("grab_all_keys", FALSE, n) >>
                                         ELSE <<>>) ],
                     events, n + 1)

\* a callback that updates the key bindings once for every XkbMapNotify
xkb_got_event_per_notify(xkb_current_group, events) ==
    LET st == xkb_loop([ xkb_current_group |-> xkb_current_group, mapping_changed |-> FALSE,
                         calls |-> <<>> ], events, 1)
        RECURSIVE Times(_)
        Times(n) == IF n = 0 THEN <<>> ELSE regrab(st.xkb_current_group) \o Times(n - 1)
    IN  [ xkb_current_group |-> st.xkb_current_group,
          calls |-> st.calls
                    \o Times(Cardinality({ n \in 1..Len(events) : events[n].kind = "map" })) ]

\* xkb_got_event: the loop, then the update of the key bindings if a
\* XkbMapNotify was among the events
xkb_got_event(xkb_current_group, events) ==
    LET st == xkb_loop([ xkb_current_group |-> xkb_current_group, mapping_changed |-> FALSE,
                         calls |-> <<>> ], events, 1)
    IN  [ xkb_current_group |-> st.xkb_current_group,
          calls |-> st.calls
                    \o (IF st.mapping_changed THEN regrab(st.xkb_current_group) ELSE <<>>) ]

XkbInit ==
    /\ all_clients = <<>>
    /\ heap = {}
    /\ watchers = {}
    /\ fdtable = [ fd \in {} |-> 0 ]
    /\ nconn = 0
    /\ pending = [ c \in {} |-> 0 ]
    /\ peer_closed = {}
    /\ phase = "running"
    /\ listening = FALSE
    /\ stream = NoStream
    /\ \E xkb_current_group \in XkbGroups, events \in XkbBatches :
          host = [ name |-> "xkb", xkb_current_group |-> xkb_current_group,
                   events |-> events, calls |-> <<>> ]
    /\ op = [ name |-> "init" ]
    /\ before = <<>>
    /\ out = <<>>

\* the callback runs once over the pending events
call_xkb_got_event ==
    /\ phase = "running"
    /\ host.name = "xkb"
    /\ op.name = "init"
    /\ LET done == xkb_got_event(host.xkb_current_group, host.events)
       IN  /\ host' = [ host EXCEPT !.xkb_current_group = done.xkb_current_group,
                                    !.events = <<>>, !.calls = done.calls ]
           /\ op' = [ name |-> "xkb_got_event", events |-> host.events,
                      xkb_current_group |-> host.xkb_current_group ]
    /\ UNCHANGED << all_clients, heap, watchers, fdtable, nconn, pending, peer_closed,
                    phase, listening, stream, before, out >>

XkbSpec == XkbInit /\ [][call_xkb_got_event]_vars

(***************************************************************************)
(* Vocabulary of the properties.  These definitions are written from the   *)
(* statements they serve, not from the code: names are compared by         *)
(* lower-casing both whole strings.                                        *)
(***************************************************************************)
Lower(name) == [ i \in 1..Len(name) |-> IF name[i] \in 65..90 THEN name[i] + 32 ELSE name[i] ]

SameNameIgnoringCase(a, b) == Lower(a) = Lower(b)

\* the positions of a client's subscription list that hold the name
MatchingEntries(client, name) ==
    { i \in 1..Len(client.events) : SameNameIgnoringCase(client.events[i], name) }

\* the positions of `out' that are sends on descriptor fd
SendsTo(fd) == { k \in 1..Len(out) : out[k].fd = fd }

\* the connections that have an entry in the registry
Registered == { ConnOf(all_clients[i].fd) : i \in 1..Len(all_clients) }

IsPublish == op.name = "ipc_send_event"

IsRequest == op.name = "ipc_receive_message" /\ op.ret = "message"

IsTeardown == op.name = "ipc_receive_message" /\ op.ret \in { "EOF", "error", "magic" }

(***************************************************************************)
(* C1.  ipc_send_event(E, type, payload) sends a message to a registered   *)
(* client if and only if the client's subscription list holds a name equal *)
(* to E when letter case is ignored; a client with an empty list or with   *)
(* no such name receives nothing.  The message carries the type and the    *)
(* payload of the call.                                                    *)
(***************************************************************************)
C1_PublishIffSubscribed ==
    IsPublish =>
        /\ \A i \in 1..Len(all_clients) :
              (SendsTo(all_clients[i].fd) # {})
                  <=> (MatchingEntries(all_clients[i], op.event) # {})
        /\ \A k \in 1..Len(out) :
              /\ out[k].fd \in ClientFds
              /\ out[k].type = op.type
              /\ out[k].payload = op.payload

\* a publish of "ws" reaches a client subscribed to "Ws" only and passes by
\* a client subscribed to "w" only
C1_Witness ==
    /\ IsPublish
    /\ op.event = << 119, 115 >>
    /\ \E i, j \in 1..Len(all_clients) :
          /\ all_clients[i].events = << << 87, 115 >> >>
          /\ SendsTo(all_clients[i].fd) # {}
          /\ all_clients[j].events = << << 119 >> >>
          /\ SendsTo(all_clients[j].fd) = {}

(***************************************************************************)
(* C2.  One publish sends exactly one message to each subscribed client,   *)
(* however many entries of its list hold the name (in any letter case).    *)
(***************************************************************************)
C2_OneMessagePerClient ==
    IsPublish =>
        \A i \in 1..Len(all_clients) :
            MatchingEntries(all_clients[i], op.event) # {}
                => Cardinality(SendsTo(all_clients[i].fd)) = 1

\* a client holding the published name twice, in two spellings, got one message
C2_Witness ==
    /\ IsPublish
    /\ \E i \in 1..Len(all_clients) :
          /\ Cardinality(MatchingEntries(all_clients[i], op.event)) >= 2
          /\ all_clients[i].events[1] # all_clients[i].events[2]
          /\ Cardinality(SendsTo(all_clients[i].fd)) = 1

(***************************************************************************)
(* C3.  The sends of one publish occur in the order in which their         *)
(* recipients were accepted (connection ids count the accepts), whatever   *)
(* accepts and disconnects came before.                                    *)
(***************************************************************************)
C3_BroadcastInAcceptOrder ==
    IsPublish =>
        \A k \in 1..(Len(out) - 1) : out[k].conn < out[k + 1].conn

\* two recipients, the later accepted on the lower descriptor (a descriptor
\* freed by a disconnect and handed out again)
C3_Witness ==
    /\ IsPublish
    /\ Len(out) = 2
    /\ out[1].conn < out[2].conn
    /\ out[1].fd > out[2].fd

IsCommand == IsRequest /\ op.type = I3_IPC_MESSAGE_TYPE_COMMAND

\* the positions of `out' that carry an event, and those that carry a reply
EventSends == { k \in 1..Len(out) : out[k].type.event }

ReplySends == { k \in 1..Len(out) : ~out[k].type.event }

(***************************************************************************)
(* C4, as stated.  While a COMMAND is handled, every event sent as a       *)
(* consequence of the command is sent after the command's reply has been   *)
(* sent on the requesting connection.                                      *)
(***************************************************************************)
C4_ReplyBeforeBroadcast ==
    IsCommand =>
        \A k \in EventSends :
            \E j \in ReplySends : j < k /\ out[j].fd = op.fd

(***************************************************************************)
(* C4, amended.  While a COMMAND is handled, the events published by       *)
(* executing the command (while it is parsed, and while the tree is        *)
(* rendered when the command asks for it) are sent first; the command's    *)
(* reply, on the requesting connection, is the last message of the         *)
(* handler.                                                               *)
(***************************************************************************)
C4_BroadcastBeforeReply ==
    IsCommand =>
        /\ Len(out) >= 1
        /\ ReplySends = { Len(out) }
        /\ out[Len(out)].fd = op.fd
        /\ out[Len(out)].type = ReplyType(I3_IPC_MESSAGE_TYPE_COMMAND)

\* a command whose execution published an event while parsing and another
\* while rendering, both delivered to subscribers ahead of the reply
C4_Witness ==
    /\ IsCommand
    /\ Len(out) = 3
    /\ op.exec.events # <<>>
    /\ op.exec.render_events # <<>>
    /\ out[1].type.event
    /\ out[2].type.event
    /\ out[3].fd = op.fd

C6_TeardownOnReadFailure ==
    IsTeardown =>
        /\ op.fd \notin OpenFds
        /\ op.fd \notin watchers
        /\ FindClient(all_clients, op.fd) = 0
        /\ \A i \in 1..Len(all_clients) : all_clients[i].fd # op.fd
        /\ \A s \in heap : s[1] # op.conn
        /\ \E i \in 1..Len(before) :
              /\ before[i].fd = op.fd
              /\ all_clients = RemoveAt(before, i)
        /\ out = <<>>

\* a bad magic tears down a client that holds a subscription while another
\* client is registered
C6_Witness ==
    /\ IsTeardown
    /\ op.ret = "magic"
    /\ Len(before) >= 2
    /\ \E i \in 1..Len(before) : before[i].fd = op.fd /\ before[i].events # <<>>

\* the last step ran the read callback of a connection whose peer had closed
\* before, and the connection is still open afterwards (a teardown forgets
\* the connection, so it is no longer among the closed peers)
ServicedAfterPeerClose == op.name = "ipc_receive_message" /\ op.conn \in peer_closed

(***************************************************************************)
(* C7, as stated.  A client whose peer has closed the socket is removed    *)
(* from the registry the next time its connection is serviced.             *)
(***************************************************************************)
C7_RemovedAtNextServicing ==
    ServicedAfterPeerClose => op.conn \notin Registered

(***************************************************************************)
(* C7, amended.  A servicing that finds end of file (or a failed read)     *)
(* removes the client; a client whose peer has closed survives a servicing *)
(* only when that servicing read a request the peer had written before it  *)
(* closed.  If the reactor keeps servicing readable connections, a client  *)
(* whose peer has closed is eventually removed (or the process has left    *)
(* the event loop).  A publish sends only to registered clients and        *)
(* leaves the process running, whether or not a send fails.                *)
(***************************************************************************)
C7_RemovedOnceDrained ==
    /\ [](IsTeardown => \A i \in 1..Len(all_clients) : all_clients[i].fd # op.fd)
    /\ [](ServicedAfterPeerClose => (op.ret = "message" /\ op.conn \in Registered))
    /\ \A c \in 1..MaxFairConns :
          (c \in peer_closed) ~> (c \notin Registered \/ phase = "exited")
    /\ [](IsPublish =>
            /\ phase = "running"
            /\ \A k \in 1..Len(out) : out[k].conn \in Registered)

\* the peer wrote a SUBSCRIBE and closed; the servicing that follows reads
\* the SUBSCRIBE, the reply cannot be delivered, the client stays registered
C7_Witness ==
    /\ ServicedAfterPeerClose
    /\ op.type = I3_IPC_MESSAGE_TYPE_SUBSCRIBE
    /\ op.conn \in Registered
    /\ Len(out) = 1
    /\ ~out[1].ok

IsShutdown == op.name = "ipc_shutdown"

(***************************************************************************)
(* C8.  ipc_shutdown, in any registry state, ends with the registry empty  *)
(* and with the connection of every client that was registered at the call *)
(* closed; it sends no message.                                            *)
(***************************************************************************)
C8_ShutdownDrainsRegistry ==
    IsShutdown =>
        /\ all_clients = <<>>
        /\ \A i \in 1..Len(before) : before[i].fd \notin OpenFds
        /\ out = <<>>

\* a shutdown with two clients registered, one of them with a subscription
C8_Witness ==
    /\ IsShutdown
    /\ Len(before) >= 2
    /\ \E i \in 1..Len(before) : before[i].events # <<>>
    /\ all_clients = <<>>

(***************************************************************************)
(* C9, as stated.  Whichever way a client leaves the registry (the read    *)
(* failure path or ipc_shutdown), none of its subscription strings stays   *)
(* allocated: every allocated subscription string belongs to a client that *)
(* is in the registry.                                                     *)
(***************************************************************************)
C9_NoStringOutlivesItsClient ==
    \A s \in heap : s[1] \in Registered

(***************************************************************************)
(* C10.  A SUBSCRIBE whose payload is the JSON array of the n strings ns   *)
(* appends exactly ns, in order and byte for byte, to the end of the       *)
(* requesting client's list (no entry is dropped as a duplicate, no other  *)
(* client changes) and is answered by {"success":true}.                    *)
(***************************************************************************)
C10_SubscribeAppendsVerbatim ==
    \A ns \in SubscribeLists :
        (IsRequest /\ op.type = I3_IPC_MESSAGE_TYPE_SUBSCRIBE /\ op.payload = JsonArray(ns)) =>
            /\ Len(all_clients) = Len(before)
            /\ \A i \in 1..Len(before) :
                  /\ all_clients[i].fd = before[i].fd
                  /\ all_clients[i].events =
                        IF before[i].fd = op.fd THEN before[i].events \o ns
                        ELSE before[i].events
            /\ Len(out) = 1
            /\ out[1].fd = op.fd
            /\ out[1].payload = << 123, 34, 115, 117, 99, 99, 101, 115, 115, 34, 58,
                                   116, 114, 117, 101, 125 >>

\* a client that holds "Ws" subscribes to "Ws" again and then holds it twice
C10_Witness ==
    /\ IsRequest
    /\ op.type = I3_IPC_MESSAGE_TYPE_SUBSCRIBE
    /\ op.payload = JsonArray(<< << 87, 115 >> >>)
    /\ \E i \in 1..Len(before) :
          /\ before[i].fd = op.fd
          /\ before[i].events = << << 87, 115 >> >>
          /\ all_clients[i].events = << << 87, 115 >>, << 87, 115 >> >>

IsSubscribe == IsRequest /\ op.type = I3_IPC_MESSAGE_TYPE_SUBSCRIBE

\* the entry of the registry r for descriptor fd: its position, or 0
EntryOf(r, fd) ==
    IF \E i \in 1..Len(r) : r[i].fd = fd
    THEN CHOOSE i \in 1..Len(r) : r[i].fd = fd
    ELSE 0

(***************************************************************************)
(* C11.  A SUBSCRIBE whose payload fails to parse (here: the names ns in   *)
(* an array that ends in a byte that is no JSON) is answered by exactly    *)
(* one reply, {"success":false}; the names read before the failure are     *)
(* appended and stay; the client stays registered, its connection open and *)
(* watched.                                                                *)
(***************************************************************************)
C11_FailedSubscribeKeepsNames ==
    \A ns \in SubscribeLists :
        (IsSubscribe /\ op.payload = JsonBroken(ns)) =>
            /\ Len(out) = 1
            /\ out[1].fd = op.fd
            /\ out[1].payload = << 123, 34, 115, 117, 99, 99, 101, 115, 115, 34, 58,
                                   102, 97, 108, 115, 101, 125 >>
            /\ EntryOf(before, op.fd) # 0
            /\ EntryOf(all_clients, op.fd) = EntryOf(before, op.fd)
            /\ all_clients[EntryOf(all_clients, op.fd)].events
                  = before[EntryOf(before, op.fd)].events \o ns
            /\ op.fd \in OpenFds
            /\ op.fd \in watchers

\* a client that holds "w" sends the broken array of "ws": the reply says
\* false and the client holds "w" and "ws"
C11_Witness ==
    /\ IsSubscribe
    /\ op.payload = JsonBroken(<< << 119, 115 >> >>)
    /\ Len(out) = 1
    /\ out[1].payload # << 123, 34, 115, 117, 99, 99, 101, 115, 115, 34, 58,
                           116, 114, 117, 101, 125 >>
    /\ EntryOf(all_clients, op.fd) # 0
    /\ all_clients[EntryOf(all_clients, op.fd)].events = << << 119 >>, << 119, 115 >> >>

(***************************************************************************)
(* C12.  A SUBSCRIBE on connection X, accepted or refused, changes no      *)
(* other client: the registry holds the same clients in the same order and *)
(* the list of every client other than X is what it was.                   *)
(***************************************************************************)
C12_SubscribeChangesOnlyRequester ==
    IsSubscribe =>
        /\ Len(all_clients) = Len(before)
        /\ \A i \in 1..Len(before) :
              /\ all_clients[i].fd = before[i].fd
              /\ before[i].fd # op.fd => all_clients[i].events = before[i].events

\* the second client of the registry subscribes while the first holds a name:
\* the second client's list grows, the first keeps its own
C12_Witness ==
    /\ IsSubscribe
    /\ Len(before) >= 2
    /\ before[2].fd = op.fd
    /\ before[1].events # <<>>
    /\ all_clients[1].events = before[1].events
    /\ Len(all_clients[2].events) > Len(before[2].events)

(***************************************************************************)
(* C13.  A SUBSCRIBE handled for a descriptor that has no entry in the     *)
(* registry is dropped: nothing is sent and no subscription list changes.  *)
(***************************************************************************)
C13_SubscribeWithoutEntryIsDropped ==
    (/\ op.name = "handlers"
     /\ op.type = I3_IPC_MESSAGE_TYPE_SUBSCRIBE
     /\ EntryOf(before, op.fd) = 0) =>
        /\ out = <<>>
        /\ all_clients = before

\* a valid SUBSCRIBE to "ws" for a descriptor without an entry, while another
\* descriptor has an entry with a subscription
C13_Witness ==
    /\ op.name = "handlers"
    /\ op.type = I3_IPC_MESSAGE_TYPE_SUBSCRIBE
    /\ op.payload = JsonArray(<< << 119, 115 >> >>)
    /\ EntryOf(before, op.fd) = 0
    /\ before # <<>>
    /\ \E i \in 1..Len(before) : before[i].events # <<>>
    /\ out = <<>>

(***************************************************************************)
(* C14.  A message whose type is at or beyond the size of the handler      *)
(* table runs no handler: nothing is sent, the registry (so the client's   *)
(* entry and list) is unchanged, and the connection stays open, watched    *)
(* and registered, so that its later requests are read and served as any   *)
(* other.                                                                  *)
(***************************************************************************)
C14_UnknownTypeIsIgnored ==
    (IsRequest /\ op.type >= NumHandlers) =>
        /\ out = <<>>
        /\ all_clients = before
        /\ EntryOf(all_clients, op.fd) # 0
        /\ op.fd \in watchers
        /\ ConnOf(op.fd) = op.conn
        /\ phase = "running"

\* a message of type 8 from a client that holds a subscription
C14_Witness ==
    /\ IsRequest
    /\ op.type = NumHandlers
    /\ EntryOf(all_clients, op.fd) # 0
    /\ all_clients[EntryOf(all_clients, op.fd)].events # <<>>
    /\ out = <<>>

\* the calls of the last operation, as the handler made them
Sent ==
    [ k \in 1..Len(out) |->
        [ fd |-> out[k].fd, size |-> out[k].size, type |-> out[k].type,
          payload |-> out[k].payload ] ]

\* what the handler of each request kind does with the last request
HandlerOfKind(t) ==
    CASE t = 0 -> handle_command(before, {}, op.fd, op.payload, op.exec)
      [] t = 1 -> handle_get_workspaces(before, {}, op.fd)
      [] t = 2 -> handle_subscribe(before, {}, op.fd, op.conn, op.payload)
      [] t = 3 -> handle_get_outputs(before, {}, op.fd)
      [] t = 4 -> handle_tree(before, {}, op.fd, op.exec.croot, op.exec.ndebug)
      [] t = 5 -> handle_get_marks(before, {}, op.fd)
      [] t = 6 -> handle_get_bar_config(before, {}, op.fd, op.payload, op.exec.barconfigs)
      [] t = 7 -> handle_get_version(before, {}, op.fd)

(***************************************************************************)
(* C15.  The handler that runs is chosen by the type code alone: 0 runs    *)
(* COMMAND, 1 GET_WORKSPACES, 2 SUBSCRIBE, 3 GET_OUTPUTS, 4 GET_TREE,      *)
(* 5 GET_MARKS, 6 GET_BAR_CONFIG, 7 GET_VERSION; what is sent and what the *)
(* registry becomes are what that handler produces, and the reply carries  *)
(* the reply type of that kind.                                            *)
(***************************************************************************)
C15_DispatchByTypeCode ==
    \A t \in 0..7 :
        (IsRequest /\ op.type = t) =>
            /\ Sent = HandlerOfKind(t).msgs
            /\ all_clients = HandlerOfKind(t).clients
            /\ \E k \in 1..Len(out) : out[k].type = [ event |-> FALSE, code |-> t ]

\* a GET_OUTPUTS request (type 3) answered with a reply of type 3
C15_Witness ==
    /\ IsRequest
    /\ op.type = 3
    /\ Len(out) = 1
    /\ out[1].type = [ event |-> FALSE, code |-> 3 ]
    /\ Sent = handle_get_outputs(before, {}, op.fd).msgs

(***************************************************************************)
(* C16.  In every reachable state no two entries of the registry have the  *)
(* same descriptor, and the descriptor of every entry is open: a           *)
(* descriptor is closed only in the step that removes its entry, so it is  *)
(* not handed out again while the entry is registered.                     *)
(***************************************************************************)
C16_DescriptorsUnique ==
    /\ \A i, j \in 1..Len(all_clients) :
          i # j => all_clients[i].fd # all_clients[j].fd
    /\ \A i \in 1..Len(all_clients) : all_clients[i].fd \in OpenFds

\* two clients are registered and one of them sits on a descriptor that an
\* earlier connection had and lost
C16_Witness ==
    /\ Len(all_clients) = 2
    /\ \E i \in 1..2 : ConnOf(all_clients[i].fd) > all_clients[i].fd
    /\ all_clients[1].fd # all_clients[2].fd

IsAccept == op.name = "ipc_new_client" /\ op.result = "ok"

IsFailedAccept == op.name = "ipc_new_client" /\ op.result \in { "EINTR", "error" }

(***************************************************************************)
(* C17.  A successful accept adds exactly one entry, with the accepted     *)
(* descriptor and an empty subscription list, at the tail of the registry  *)
(* and starts the read watcher of that descriptor; the entries that were   *)
(* there are unchanged and in the same order, and each entry has one       *)
(* watcher.                                                                *)
(***************************************************************************)
C17_AcceptAppendsEmptyClient ==
    IsAccept =>
        /\ all_clients = before \o << [ fd |-> op.fd, events |-> <<>> ] >>
        /\ \A i \in 1..Len(before) : before[i].fd # op.fd
        /\ op.fd \in watchers
        /\ op.fd \in OpenFds
        /\ watchers = { all_clients[i].fd : i \in 1..Len(all_clients) }
        /\ out = <<>>

\* an accept while a client with a subscription is registered
C17_Witness ==
    /\ IsAccept
    /\ Len(before) >= 1
    /\ before[1].events # <<>>
    /\ all_clients[Len(all_clients)].fd = op.fd
    /\ all_clients[Len(all_clients)].events = <<>>

(***************************************************************************)
(* C18.  A failed accept (interrupted or any other error) leaves the       *)
(* registry and the client watchers as they were, sends nothing, and       *)
(* leaves the listener's watcher started and the process running, so that  *)
(* the next connection attempt is accepted.                                *)
(***************************************************************************)
C18_FailedAcceptChangesNothing ==
    IsFailedAccept =>
        /\ all_clients = before
        /\ watchers = { before[i].fd : i \in 1..Len(before) }
        /\ OpenFds = watchers
        /\ out = <<>>
        /\ listening
        /\ phase = "running"

\* an accept fails with an error other than EINTR while a client is registered
C18_Witness ==
    /\ IsFailedAccept
    /\ op.result = "error"
    /\ Len(all_clients) >= 1
    /\ listening

(***************************************************************************)
(* C19.  When socket(), bind() or listen() fails in ipc_create_socket, the *)
(* function returns -1, main starts no watcher for that socket and the     *)
(* process goes on to the event loop; a listener exists then only for a    *)
(* socket passed in by socket activation, and without any listener no      *)
(* client is ever accepted.                                                *)
(***************************************************************************)
C19_CreateFailureDisablesIpc ==
    /\ (op.name = "main" /\ op.outcome \in { "socket", "bind", "listen" }) =>
          /\ op.ipc_socket = -1
          /\ ~op.ipc_io
          /\ phase = "running"
          /\ listening <=> op.listen_fds > 0
    /\ (phase = "running" /\ ~listening) => (nconn = 0 /\ all_clients = <<>>)

\* bind() failed and no socket was passed in: the process runs without IPC
C19_Witness ==
    /\ op.name = "main"
    /\ op.outcome = "bind"
    /\ op.listen_fds = 0
    /\ op.ipc_socket = -1
    /\ phase = "running"
    /\ ~listening

(***************************************************************************)
(* C20, as stated.  No failure of a system call made for one client        *)
(* connection (while accepting it, reading from it or writing to it) ends  *)
(* the process or the listener: after every step of the accept callback,   *)
(* the read callback or a publish the process is running and listening.    *)
(***************************************************************************)
C20_NoConnectionFailureIsFatal ==
    op.name \in { "ipc_new_client", "ipc_receive_message", "ipc_send_event" } =>
        (phase = "running" /\ listening)

(***************************************************************************)
(* C21.  A publish is best effort.  When the send to a subscribed client   *)
(* fails, ipc_send_event sends to that client once only (no retry), keeps  *)
(* the client registered, open and watched, and still sends once to every  *)
(* subscribed client after it in the registry, in order.                   *)
(***************************************************************************)
C21_PublishIsBestEffort ==
    IsPublish =>
        /\ all_clients = before
        /\ \A i \in 1..Len(all_clients) :
              /\ all_clients[i].fd \in OpenFds
              /\ all_clients[i].fd \in watchers
              /\ Cardinality(SendsTo(all_clients[i].fd))
                    = IF MatchingEntries(all_clients[i], op.event) # {} THEN 1 ELSE 0
        /\ phase = "running"

\* the first recipient's peer is gone and the send to it fails; the second
\* recipient is sent to nevertheless; both stay registered
C21_Witness ==
    /\ IsPublish
    /\ Len(out) = 2
    /\ ~out[1].ok
    /\ out[2].ok
    /\ Len(all_clients) >= 2
    /\ out[1].conn \in Registered

(***************************************************************************)
(* C22.  In every message that is sent, a reply or an event, the length    *)
(* handed to ipc_send_message is the number of bytes of the payload handed *)
(* to it; an empty payload is sent with length 0.                          *)
(***************************************************************************)
C22_LengthMatchesPayload ==
    \A k \in 1..Len(out) : out[k].size = Len(out[k].payload)

\* an event with an empty payload was sent to a subscriber, with length 0
C22_Witness ==
    /\ IsPublish
    /\ Len(out) >= 1
    /\ out[1].payload = <<>>
    /\ out[1].size = 0


\* C23: framing round trip.  For every type code and every payload, the empty
\* one included, decoding the bytes that encoding (type, payload) produces
\* yields exactly that type and that payload, and takes all the bytes; and a
\* receiver that has taken the first message of a stream has got what was sent.
C23_FramingRoundTrip ==
    /\ \A i \in 1..Len(stream.msgs) :
          LET m == stream.msgs[i]
          IN  decode(encode(m.type, m.payload))
                 = [ status |-> "message", type |-> m.type, payload |-> m.payload,
                     used |-> HeaderLen + Len(m.payload) ]
    /\ (op.name = "decode" /\ op.result.status = "message" /\ op.index = 1)
          => /\ op.result.type = stream.msgs[1].type
             /\ op.result.payload = stream.msgs[1].payload

C23_Witness ==
    /\ op.name = "decode"
    /\ op.result.status = "message"
    /\ op.index = 1
    /\ op.result.payload = <<>>
    /\ op.result.type = ReplyType(258)

\* C24: partial delivery.  Whatever the offsets at which the encoding of a
\* message is split, a decode before all of its bytes have arrived yields
\* Incomplete, consumes nothing, delivers nothing and does not close; a decode
\* with all of its bytes there yields exactly the type and the payload that
\* were sent and consumes up to the end of that message, not beyond.
C24_PartialDelivery ==
    (op.name = "decode" /\ op.index <= Len(stream.msgs) /\ (op.index = 1 \/ ~stream.garbled))
        => IF op.available < Boundary(stream.msgs, op.index)
              THEN /\ op.result = Incomplete
                   /\ stream.consumed = op.consumed
                   /\ stream.delivered = op.index - 1
                   /\ ~stream.closed
              ELSE /\ op.result.status = "message"
                   /\ op.result.type = stream.msgs[op.index].type
                   /\ op.result.payload = stream.msgs[op.index].payload
                   /\ stream.consumed = Boundary(stream.msgs, op.index)
                   /\ stream.delivered = op.index
                   /\ ~stream.closed

\* the first message was taken while a part of the second one had arrived
\* already: the bytes of the second were left alone
C24_Witness ==
    /\ op.name = "decode"
    /\ op.index = 1
    /\ op.result.status = "message"
    /\ op.result.payload = << 91, 93 >>
    /\ stream.arrived > stream.consumed
    /\ stream.arrived < Len(stream.bytes)
    /\ stream.consumed = Boundary(stream.msgs, 1)


\* C25: a read callback whose read reports would-block returns without any
\* change: the registry and every subscription list are as before, the
\* connection stays open, watched and registered as it was, nothing is sent
\* and the process keeps running.
C25_WouldBlockChangesNothing ==
    (op.name = "ipc_receive_message" /\ op.ret = "EAGAIN")
        => /\ all_clients = before
           /\ op.fd \in OpenFds
           /\ op.fd \in watchers
           /\ ConnOf(op.fd) = op.conn
           /\ \A i \in 1..Len(all_clients) :
                 /\ all_clients[i].fd \in OpenFds
                 /\ all_clients[i].fd \in watchers
                 /\ \A j \in 1..num_events(all_clients[i]) :
                       << ConnOf(all_clients[i].fd), j >> \in heap
           /\ out = <<>>
           /\ phase = "running"

C25_Witness ==
    /\ op.name = "ipc_receive_message"
    /\ op.ret = "EAGAIN"
    /\ Len(all_clients) >= 2
    /\ \E i \in 1..Len(all_clients) :
          all_clients[i].fd = op.fd /\ num_events(all_clients[i]) >= 1


\* C26: the subscription list of a client only grows, and only at its end:
\* over every step the list a registered client had before is a prefix of the
\* list it has afterwards, and a list differs from what it was only after a
\* SUBSCRIBE request received on that client's own connection.
C26_ListGrowsByAppending ==
    \A i \in 1..Len(before) : \A j \in 1..Len(all_clients) :
        before[i].fd = all_clients[j].fd
            => /\ Len(before[i].events) <= Len(all_clients[j].events)
               /\ SubSeq(all_clients[j].events, 1, Len(before[i].events)) = before[i].events
               /\ all_clients[j].events # before[i].events
                     => IsSubscribe /\ op.fd = all_clients[j].fd

\* a client that had a name already has subscribed to another one
C26_Witness ==
    /\ IsSubscribe
    /\ \E i \in 1..Len(before) : \E j \in 1..Len(all_clients) :
          /\ before[i].fd = all_clients[j].fd
          /\ before[i].fd = op.fd
          /\ Len(before[i].events) = 1
          /\ Len(all_clients[j].events) = 2
          /\ all_clients[j].events[2] # all_clients[j].events[1]


\* a COMMAND request was handed to its handler
IsCommandCall == op.name = "handlers" /\ op.type = I3_IPC_MESSAGE_TYPE_COMMAND

\* the positions of op.calls that are calls of tree_render
RenderCalls == { k \in 1..Len(op.calls) : op.calls[k].call = "tree_render" }

\* C27, as stated.  The COMMAND handler hands the command executor exactly the
\* bytes of the payload as command text, for every payload of the announced
\* length, payloads with a zero byte included, and relays the executor's JSON
\* result to the requester unmodified.
C27_ExecutorGetsPayloadBytes ==
    IsCommandCall
        => /\ op.calls[1].call = "parse_command"
           /\ op.calls[1].command = op.payload
           /\ \E k \in 1..Len(out) :
                 /\ out[k].fd = op.fd
                 /\ out[k].type = ReplyType(I3_IPC_MESSAGE_TYPE_COMMAND)
                 /\ out[k].payload = op.exec.json

\* C28: for each COMMAND request the handler asks the host to re-render
\* exactly once if the executor's result signals that visible state changed
\* and not at all otherwise; in both cases exactly one COMMAND reply is sent,
\* to the requester.
C28_RenderIffChanged ==
    IsCommandCall
        => /\ Cardinality(RenderCalls) = (IF op.exec.needs_tree_render THEN 1 ELSE 0)
           /\ Cardinality(ReplySends) = 1
           /\ \A k \in ReplySends :
                 /\ out[k].fd = op.fd
                 /\ out[k].type = ReplyType(I3_IPC_MESSAGE_TYPE_COMMAND)

\* a command that changed visible state: one re-render, whose event went out
\* before the one reply
C28_Witness ==
    /\ IsCommandCall
    /\ op.exec.needs_tree_render
    /\ Cardinality(RenderCalls) = 1
    /\ Cardinality(ReplySends) = 1
    /\ EventSends # {}
    /\ op.exec.json = ReplySuccessTrue


\* a GET_BAR_CONFIG request was handed to its handler
IsBarConfigCall == op.name = "handlers" /\ op.type = I3_IPC_MESSAGE_TYPE_GET_BAR_CONFIG

\* the ids of the known configurations, in configuration order
KnownIds == [ i \in 1..Len(op.exec.barconfigs) |-> op.exec.barconfigs[i].id ]

\* the text is the start of the payload
StartsWith(payload, text) ==
    Len(payload) >= Len(text) /\ SubSeq(payload, 1, Len(text)) = text

\* C29, as stated.  GET_BAR_CONFIG with an empty payload replies with the
\* array of all known config ids in configuration order; with a non-empty
\* payload it replies with an object: when the payload is equal, byte for
\* byte, to the id of a known config, the object's id is that id; when it is
\* not, the object is {"id":null}, the id field with JSON null and no other
\* field.
C29_BarConfigReply ==
    IsBarConfigCall
        => /\ Len(out) = 1
           /\ out[1].fd = op.fd
           /\ out[1].type = ReplyType(I3_IPC_MESSAGE_TYPE_GET_BAR_CONFIG)
           /\ IF op.payload = <<>>
                 THEN out[1].payload = JsonArray(KnownIds)
              ELSE IF \E i \in 1..Len(KnownIds) : KnownIds[i] = op.payload
                 THEN StartsWith(out[1].payload,
                                 << 123 >> \o KeyId \o Quote(op.payload) \o << 44 >>)
              ELSE out[1].payload = << 123 >> \o KeyId \o JsonNull \o << 125 >>


\* a GET_TREE request was handed to its handler
IsTreeCall == op.name = "handlers" /\ op.type = I3_IPC_MESSAGE_TYPE_GET_TREE

\* the containers of the tree: the root and its children
NodesOf(croot) == << croot >> \o croot.nodes

\* the positions of a payload where the key "layout" starts
LayoutKeys(payload) ==
    { i \in 1..Len(payload) :
        /\ i + Len(Quote(str_layout)) <= Len(payload)
        /\ SubSeq(payload, i, i + Len(Quote(str_layout))) = Quote(str_layout) \o << 58 >> }

\* the tokens a layout field may hold
LayoutTokens == { str_splitv, str_splith, str_stacked, str_tabbed, str_dockarea, str_output }

\* the value of the key at position i of the payload is one of the tokens
HasLayoutToken(payload, i) ==
    \E token \in LayoutTokens :
        LET from == i + Len(Quote(str_layout)) + 1
        IN  /\ from + Len(Quote(token)) - 1 <= Len(payload)
            /\ SubSeq(payload, from, from + Len(Quote(token)) - 1) = Quote(token)

\* C30, as stated.  GET_TREE never silently substitutes a token for a node
\* whose layout is the default value: serializing such a node is an assertion
\* failure, so the process ends and no reply is sent; and in every reply that
\* is sent each node has a layout field that holds one of splitv, splith,
\* stacked, tabbed, dockarea, output.
C30_DefaultLayoutIsNeverSerialized ==
    IsTreeCall
        => /\ (\E n \in 1..Len(NodesOf(op.exec.croot)) :
                   NodesOf(op.exec.croot)[n].layout = "L_DEFAULT")
                 => phase = "aborted" /\ out = <<>>
           /\ \A k \in 1..Len(out) :
                 /\ Cardinality(LayoutKeys(out[k].payload)) = Len(NodesOf(op.exec.croot))
                 /\ \A i \in LayoutKeys(out[k].payload) : HasLayoutToken(out[k].payload, i)


\* the positions of a payload where the key starts, colon included
KeyPositions(payload, key) ==
    { i \in 1..Len(payload) :
        /\ i + Len(Quote(key)) <= Len(payload)
        /\ SubSeq(payload, i, i + Len(Quote(key))) = Quote(key) \o << 58 >> }

\* the value of the key at position i of the payload is the token, and a
\* comma or a closing brace follows it
HasToken(payload, i, key, token) ==
    LET from == i + Len(Quote(key)) + 1
        to   == from + Len(Quote(token)) - 1
    IN  /\ to + 1 <= Len(payload)
        /\ SubSeq(payload, from, to) = Quote(token)
        /\ payload[to + 1] \in { 44, 125 }

\* the tokens of the enumerated fields, by the value of the field
TokenOfScratchpadState ==
    [ SCRATCHPAD_NONE |-> str_none, SCRATCHPAD_FRESH |-> str_fresh,
      SCRATCHPAD_CHANGED |-> str_changed ]

TokenOfBorderStyle == [ BS_NORMAL |-> str_normal, BS_NONE |-> str_none, BS_PIXEL |-> str_pixel ]

TokenOfFloating ==
    [ FLOATING_AUTO_OFF |-> str_auto_off, FLOATING_AUTO_ON |-> str_auto_on,
      FLOATING_USER_OFF |-> str_user_off, FLOATING_USER_ON |-> str_user_on ]

TokenOfWorkspaceLayout == [ L_DEFAULT |-> str_default, L_STACKED |-> str_stacked, L_TABBED |-> str_tabbed ]

\* in the payload every node has the key once, and the value of each one is
\* a token of the table: the one of the node's value when the table has it
FieldHasItsToken(payload, nodes, key, table, field) ==
    /\ Cardinality(KeyPositions(payload, key)) = Len(nodes)
    /\ \A i \in KeyPositions(payload, key) : \A n \in 1..Len(nodes) :
          \E v \in DOMAIN table :
              /\ HasToken(payload, i, key, table[v])
              /\ nodes[n][field] \in DOMAIN table => v = nodes[n][field]

\* C31, as stated.  In a GET_TREE reply every node's enumerated fields are
\* followed by exactly one fixed token determined by the node's value:
\* scratchpad_state by none, fresh or changed, border by normal, none or pixel,
\* floating by auto_off, auto_on, user_off or user_on, workspace_layout by
\* default, stacked or tabbed; no value of these fields makes the serializer
\* write the key without a value.  (The trees have the same values of these
\* fields in all their nodes; the trees with a node of layout L_DEFAULT, whose
\* layout key already has no token, are left to C30.)
C31_EnumeratedFieldsHaveTokens ==
    (IsTreeCall /\ \A n \in 1..Len(NodesOf(op.exec.croot)) :
                      NodesOf(op.exec.croot)[n].layout # "L_DEFAULT")
        => \A k \in 1..Len(out) :
              LET nodes == NodesOf(op.exec.croot)
              IN  /\ FieldHasItsToken(out[k].payload, nodes, str_scratchpad_state,
                                      TokenOfScratchpadState, "scratchpad_state")
                  /\ FieldHasItsToken(out[k].payload, nodes, str_border,
                                      TokenOfBorderStyle, "border_style")
                  /\ FieldHasItsToken(out[k].payload, nodes, str_floating,
                                      TokenOfFloating, "floating")
                  /\ FieldHasItsToken(out[k].payload, nodes, str_workspace_layout,
                                      TokenOfWorkspaceLayout, "workspace_layout")


\* the directories above a file: its parent and the parents of that one
DirsAbove(path) == { SubSeq(path, 1, n) : n \in 0..(Len(path) - 1) }

\* the directory that has to take the first new one is not closed to writing
CanMakeDirs(dirs, readonly, path) ==
    \A d \in DirsAbove(path) :
        (d \in dirs /\ \E e \in DirsAbove(path) \ dirs : Len(e) = Len(d) + 1) => d \notin readonly

IsCreateSocket == op.name = "ipc_create_socket"

(***************************************************************************)
(* C32.  The socket path is the configured ipc_socket_path when the        *)
(* configuration sets one, else the value of I3SOCK when the environment   *)
(* has it, else the name made from the pid; main passes it to              *)
(* ipc_create_socket, which makes the directories missing above it (and no *)
(* other) before bind(), as far as mkdir is allowed to, and binds only in  *)
(* a directory that exists.                                                *)
(***************************************************************************)
C32_PathPrecedenceAndParents ==
    /\ op.name = "load_socket_path" =>
          /\ host.config_path # NULL => host.ipc_socket_path = host.config_path
          /\ (host.config_path = NULL /\ host.I3SOCK # NULL) => host.ipc_socket_path = host.I3SOCK
          /\ (host.config_path = NULL /\ host.I3SOCK = NULL)
                => host.ipc_socket_path = get_process_filename(host.pid)
    /\ IsCreateSocket =>
          /\ host.calls = 1 => op.filename = host.ipc_socket_path
          /\ (op.outcome # "socket" /\ CanMakeDirs(op.dirs, op.readonly, op.resolved))
                => DirsAbove(op.resolved) \subseteq host.dirs
          /\ host.dirs \ op.dirs \subseteq DirsAbove(op.resolved)
          /\ op.dirs \subseteq host.dirs
          /\ op.ret # -1 => DirsAbove(op.resolved) \subseteq host.dirs

\* the configuration and the environment both give a path, the configured
\* one starts with ~ and neither /home nor /home/i3 exists: both are made
\* and the socket is bound in them
C32_Witness ==
    /\ IsCreateSocket
    /\ host.calls = 1
    /\ host.config_path = << "~", "i3", "sock" >>
    /\ host.I3SOCK # NULL
    /\ op.resolved = << "home", "i3", "sock" >>
    /\ << "home" >> \notin op.dirs
    /\ { << "home" >>, << "home", "i3" >> } \subseteq host.dirs
    /\ op.ret # -1

(***************************************************************************)
(* C38.  After ipc_create_socket has returned, current_socketpath is set   *)
(* exactly when the call succeeded: it is then the resolved path of the    *)
(* file name that was bound, and after a return of -1 it is NULL, also     *)
(* when an earlier call had set it.                                        *)
(***************************************************************************)
C38_SocketPathSetIffCreated ==
    (IsCreateSocket /\ op.returned) =>
        /\ host.current_socketpath # NULL <=> op.ret # -1
        /\ op.ret # -1 => host.current_socketpath = resolve_tilde(op.filename)
        /\ op.ret = -1 => host.current_socketpath = NULL

\* the second call fails in bind() after the first one had set the path
C38_Witness ==
    /\ IsCreateSocket
    /\ op.returned
    /\ host.calls = 2
    /\ op.current_socketpath # NULL
    /\ op.outcome = "bind"
    /\ op.ret = -1
    /\ host.current_socketpath = NULL


(***************************************************************************)
(* C33.  main starts a watcher with the callback ipc_new_client on every   *)
(* descriptor passed in by socket activation, whether ipc_create_socket    *)
(* succeeded or not, the same callback as on the socket it creates; a      *)
(* connection accepted on any of these listeners gets one entry with the   *)
(* accepted descriptor and no subscription at the tail of the registry and *)
(* a started read watcher, and a client watched is served by the read      *)
(* callback whatever listener it came from.                                *)
(***************************************************************************)
C33_PassedSocketsAreListeners ==
    /\ (op.name = "main" /\ phase = "running") =>
          /\ \A fd \in SD_LISTEN_FDS_START..(SD_LISTEN_FDS_START + op.listen_fds - 1) :
                [ passed |-> TRUE, fd |-> fd, cb |-> "ipc_new_client" ] \in host.listeners
          /\ Cardinality({ w \in host.listeners : w.passed })
                = IF op.listen_fds > 0 THEN op.listen_fds ELSE 0
          /\ Cardinality({ w \in host.listeners : ~w.passed })
                = IF op.ipc_socket # -1 THEN 1 ELSE 0
    /\ \A w \in host.listeners : w.cb = "ipc_new_client"
    /\ IsAccept =>
          /\ op.listener \in host.listeners
          /\ all_clients = Append(before, [ fd |-> op.fd, events |-> <<>> ])
          /\ watchers = { before[i].fd : i \in 1..Len(before) } \cup { op.fd }
          /\ ENABLED ipc_receive_message(op.fd)

\* ipc_create_socket failed and two sockets were passed in: a second client
\* is accepted on the second of them
C33_Witness ==
    /\ IsAccept
    /\ Len(all_clients) = 2
    /\ op.listener.passed
    /\ op.listener.fd = SD_LISTEN_FDS_START + 1
    /\ \A w \in host.listeners : w.passed
    /\ Cardinality(host.listeners) = 2


(***************************************************************************)
(* C35, as stated.  Between callbacks the descriptors with a started read  *)
(* watcher are those of the registered clients: while the process runs     *)
(* (after an accept, after a teardown) and after ipc_shutdown, which       *)
(* leaves no watcher started on a connection it has closed.                *)
(***************************************************************************)
C35_WatchersMatchRegistry ==
    (phase = "running" \/ IsShutdown) => watchers = ClientFds


\* the entries of a registry whose descriptor is not fd, in their order
Others(r, fd) == SelectSeq(r, LAMBDA e : e.fd # fd)

(***************************************************************************)
(* C36.  The teardown of a connection removes the one registry entry with  *)
(* the descriptor of that connection and nothing else: every other client  *)
(* is registered afterwards with the subscription list it had, and the     *)
(* other clients are in the order they were in.                            *)
(***************************************************************************)
C36_TeardownRemovesOneEntry ==
    IsTeardown =>
        /\ Cardinality({ i \in 1..Len(before) : before[i].fd = op.fd }) = 1
        /\ Len(all_clients) = Len(before) - 1
        /\ \A i \in 1..Len(before) :
              before[i].fd # op.fd
                 => \E j \in 1..Len(all_clients) :
                       /\ all_clients[j].fd = before[i].fd
                       /\ all_clients[j].events = before[i].events
        /\ \A i \in 1..Len(before), j \in 1..Len(before) :
              (i < j /\ before[i].fd # op.fd /\ before[j].fd # op.fd)
                 => EntryOf(all_clients, before[i].fd) < EntryOf(all_clients, before[j].fd)
        /\ all_clients = Others(before, op.fd)

\* the first of three clients is torn down; the third one holds a
\* subscription and comes after the second one as before
C36_Witness ==
    /\ IsTeardown
    /\ Len(before) = 3
    /\ before[1].fd = op.fd
    /\ before[3].events # <<>>
    /\ all_clients = << before[2], before[3] >>

(***************************************************************************)
(* C37.  ipc_send_event only reads the registry: after a publish of any    *)
(* event name and payload the registered clients, their order and the      *)
(* subscription list of each are what they were before the call, whether   *)
(* the sends succeed or fail.                                              *)
(***************************************************************************)
C37_PublishLeavesRegistry ==
    IsPublish =>
        /\ Len(all_clients) = Len(before)
        /\ \A i \in 1..Len(before) :
              /\ all_clients[i].fd = before[i].fd
              /\ all_clients[i].events = before[i].events
        /\ ClientFds \subseteq OpenFds

\* a publish with two recipients: the send to one fails, the one to the
\* other succeeds, and both are registered as before
C37_Witness ==
    /\ IsPublish
    /\ \E k \in 1..Len(out) : ~out[k].ok
    /\ \E k \in 1..Len(out) : out[k].ok
    /\ Len(before) >= 2
    /\ all_clients = before
    /\ \E i \in 1..Len(before) : before[i].events # <<>>


\* the descriptors of a registry, in its order
FdsOf(r) == [ i \in 1..Len(r) |-> r[i].fd ]

(***************************************************************************)
(* C34.  No client entry is removed or freed between the start and the end *)
(* of one ipc_send_event loop, whatever the peers do meanwhile and         *)
(* whichever callbacks become due: the loop never stands on an entry that  *)
(* was removed, it visits every client registered at its start once and in *)
(* order, and it sends to each of them that is subscribed to the event.    *)
(***************************************************************************)
C34_BroadcastSeesNoTeardown ==
    /\ host.active => all_clients = host.start
    /\ ~host.stale
    /\ (host.active /\ host.current # 0) => host.current \in ClientFds
    /\ IsPublish =>
          /\ all_clients = op.start
          /\ op.visited = FdsOf(op.start)
          /\ [ k \in 1..Len(out) |-> out[k].fd ]
                = FdsOf(SelectSeq(all_clients, LAMBDA c : MatchingEntries(c, op.event) # {}))

\* a publish over two clients ends after the peer of the first one has
\* closed while the loop was under way: the teardown that is due has not
\* run, both clients were visited and the second, subscribed one was sent to
C34_Witness ==
    /\ IsPublish
    /\ Len(op.start) = 2
    /\ op.visited = FdsOf(all_clients)
    /\ ConnOf(all_clients[1].fd) \in peer_closed
    /\ before = op.start
    /\ \E k \in 1..Len(out) : out[k].fd = all_clients[2].fd
    /\ ENABLED ipc_receive_message(all_clients[1].fd)


\* the text is the arguments with one space between each two of them
RECURSIVE JoinedBySpaces(_, _)
JoinedBySpaces(text, args) ==
    IF Len(args) = 1 THEN text = args[1]
    ELSE /\ Len(text) > Len(args[1])
         /\ SubSeq(text, 1, Len(args[1])) = args[1]
         /\ text[Len(args[1]) + 1] = 32
         /\ JoinedBySpaces(SubSeq(text, Len(args[1]) + 2, Len(text)), Tail(args))

\* what the statement asks of a run that is a client
ActsAsClient ==
    /\ op.client
    /\ Len(out) <= 1
    /\ op.outcome \notin { "no_socket_path", "socket", "connect" } =>
          /\ Len(out) = 1
          /\ out[1].type = [ event |-> FALSE, code |-> 0 ]
          /\ JoinedBySpaces(out[1].payload, op.args)
          /\ out[1].size = Len(out[1].payload)
    /\ op.recvs <= 1
    /\ op.status = 0 <=> (op.outcome = "reply" /\ op.reply_type = ReplyType(0))
    /\ op.outcome # "reply" => op.status # 0
    /\ (op.outcome = "reply" /\ op.reply_type # ReplyType(0)) => op.status # 0

IsXkbRun == op.name = "xkb_got_event"

\* the calls of a run with the name
CallsNamed(name) == { k \in 1..Len(host.calls) : host.calls[k].call = name }

\* the events of the batch that tell a state
StateEvents == { n \in 1..Len(op.events) : op.events[n].kind = "state" }

\* the group stored when the n-th event is read: the one of the state event
\* before it that is nearest, and the one at the start when there is none
GroupBefore(n) ==
    IF \E m \in StateEvents : m < n
    THEN op.events[CHOOSE m \in StateEvents : m < n /\ \A l \in StateEvents : l < n => l <= m].group
    ELSE op.xkb_current_group

\* the state events whose group is not the stored one
GroupChanges == { n \in StateEvents : op.events[n].group # GroupBefore(n) }

(***************************************************************************)
(* C40.  One run of xkb_got_event translates the key bindings and grabs    *)
(* them again for a changed mapping once, after the loop, when an          *)
(* XkbMapNotify is among the pending events, however many, and not at all  *)
(* when none is.  xkb_current_group is assigned, and keys are grabbed or   *)
(* ungrabbed inside the loop, only for an XkbStateNotify whose group is    *)
(* not the stored one: for group 2 the keys are grabbed with Mode_switch,  *)
(* for group 1 they are ungrabbed and grabbed without it, for another      *)
(* group nothing is grabbed.  At the end the stored group is that of the   *)
(* last such event, and the one from before the run when there is none.    *)
(***************************************************************************)
C40_OneRegrabPerBatch ==
    IsXkbRun =>
        LET maps == { n \in 1..Len(op.events) : op.events[n].kind = "map" }
            late == { k \in 1..Len(host.calls) : host.calls[k].event = 0 }
        IN  /\ Cardinality(CallsNamed("translate_keysyms")) = IF maps # {} THEN 1 ELSE 0
            /\ maps = {} => late = {}
            /\ maps # {} =>
                  /\ Cardinality(late) = 6
                  /\ \A k \in late : \A j \in 1..Len(host.calls) : j > k => j \in late
                  /\ \E u \in late, t \in late, g \in late :
                        /\ u < t /\ t < g
                        /\ host.calls[u].call = "ungrab_all_keys"
                        /\ host.calls[t].call = "translate_keysyms"
                        /\ host.calls[g].call = "grab_all_keys"
                        /\ host.calls[g].arg = (host.xkb_current_group = XkbGroup2Index)
            /\ \A k \in 1..Len(host.calls) :
                  host.calls[k].event # 0 => host.calls[k].event \in GroupChanges
            /\ \A n \in GroupChanges :
                  LET made == SelectSeq(host.calls, LAMBDA c : c.event = n)
                      group == op.events[n].group
                  IN  made = << Call("xkb_current_group", FALSE, n) >>
                             \o (CASE group = XkbGroup2Index -> << Call("grab_all_keys", TRUE, n) >>
                                   [] group = XkbGroup1Index -> << Call("ungrab_all_keys", FALSE, n),
                                                                   Call("grab_all_keys", FALSE, n) >>
                                   [] OTHER -> <<>>)
            /\ host.xkb_current_group
                  = IF GroupChanges = {} THEN op.xkb_current_group
                    ELSE op.events[CHOOSE n \in GroupChanges : \A m \in GroupChanges : m <= n].group

\* two XkbMapNotify with a state event of group 2 between them, the stored
\* group being 1: one translation, and the group is 2 at the end
C40_Witness ==
    /\ IsXkbRun
    /\ op.xkb_current_group = XkbGroup1Index
    /\ op.events = << [ kind |-> "map", group |-> 0 ], [ kind |-> "state", group |-> 1 ],
                      [ kind |-> "map", group |-> 0 ] >>
    /\ Cardinality(CallsNamed("translate_keysyms")) = 1
    /\ host.xkb_current_group = XkbGroup2Index
    /\ Cardinality(CallsNamed("grab_all_keys")) = 2

============================================================================
